---- MODULE Spec2Model ----
(***************************************************************************)
(* Credential and session lifecycle of the gig-log API: the auth handlers  *)
(* (log-in, log-out, set-password, confirm-email, forgot-password,         *)
(* verify-forgot-password) over the users, refresh_tokens and auth_codes   *)
(* tables, with every request an independently scheduled task whose store  *)
(* calls interleave with those of the other requests.                      *)
(***************************************************************************)
EXTENDS Integers, Sequences, FiniteSets, TLC

\* ---------------------------------------------------------------- bounds
\* Number of requests that get past their first checks in one behaviour.
MaxAccepted == 3
\* Last instant of the wall clock.
MaxTime == 1

\* ------------------------------------------------------- configuration
\* jwt_access_token_expiry_seconds and jwt_refresh_token_expiry_seconds, in
\* clock ticks (one tick is the validation leeway, 60 s).
AccessTtl == 1
RefreshTtl == 1
\* Validation::default() accepts a token until exp + leeway.
Leeway == 1
\* auth_code_expiry_seconds, in clock ticks.
AuthCodeTtl == 1

\* The request tasks: two, so that any pair of requests can overlap.
ReqIds == {"t1", "t2"}
Users == {"u1", "u2"}
Emails == {"u1@x", "u2@x", "nobody@x"}
\* Passwords a client can type, and those a set-password request asks for.
Passwords == {"p1", "p2"}
NewPasswords == {"p2"}
EmailOf(u) == IF u = "u1" THEN "u1@x" ELSE "u2@x"
NoUser == "nobody"

VARIABLES
    users,           \* users table: user id -> row
    refresh_tokens,  \* refresh_tokens table, in insertion order (committed rows)
    now,             \* wall clock (Utc::now(), NOW())
    issued,          \* cookies handed to clients so far
    accepted,        \* number of requests that got past their first checks
    req,             \* the request tasks
    auth_codes,      \* auth_codes table, in insertion order (committed rows)
    email_calls,     \* calls made to the email sender since the initial state
    work_sessions    \* work_sessions table, in insertion order

vars == <<users, refresh_tokens, now, issued, accepted, req, auth_codes, email_calls,
         work_sessions>>

\* ------------------------------------------------------ password hashing
\* An encoded Argon2 hash carries its salt; the password is recoverable only
\* by verification.
NoPw == [salt |-> 0, pw |-> "none"]
hash_password(password, salt) == [salt |-> salt, pw |-> password]
verify_password(password, password_hash) == password_hash.pw = password

\* Stored strings that are not Argon2 hashes: one that is no PHC string at
\* all, and a PHC string of an algorithm Argon2 does not implement.
MalformedHash == [raw |-> "not-a-phc-string"]
UnsupportedHash == [alg |-> "pbkdf2-sha256", salt |-> 0, pw |-> "p1"]

\* PasswordHash::new(password_hash): the PHC format, whatever the algorithm.
PasswordHashNew(password_hash) == "salt" \in DOMAIN password_hash

\* Argon2::default().verify_password(password, &parsed_hash).is_ok(): every
\* error of the verifier, a foreign algorithm included, is a "no".
Argon2Verifies(password, parsed_hash) ==
    "alg" \notin DOMAIN parsed_hash /\ verify_password(password, parsed_hash)

\* verify_password as a Result<bool, ApiError>.
verify_password_result(password, password_hash) ==
    IF ~PasswordHashNew(password_hash) THEN "InternalError"
    ELSE IF Argon2Verifies(password, password_hash) THEN "true"
    ELSE "false"

\* ------------------------------------------------------------ tokens
NoCookie == [token_type |-> "none", sub |-> NoUser, email |-> "", jti |-> 0, exp |-> 0]
\* A cookie value that is not a token signed with the server's secret.
Forged == [token_type |-> "forged", sub |-> NoUser, email |-> "", jti |-> 0, exp |-> 0]

create_access_token(user_id, email, t, expiry) ==
    [token_type |-> "access", sub |-> user_id, email |-> email, jti |-> 0,
     exp |-> t + expiry]

create_refresh_token(user_id, jti, t, expiry) ==
    [token_type |-> "refresh", sub |-> user_id, email |-> "", jti |-> jti,
     exp |-> t + expiry]

\* decode::<Claims>(token, key, &Validation::default()): the signature, then
\* the claims' shape (an access token has no jti, a refresh token no email),
\* then exp with the default leeway. The result is "ok" or the library's
\* error kind.
DecodeJwt(kind, token, t) ==
    IF token.token_type = "forged" THEN "InvalidSignature"
    ELSE IF token.token_type # kind THEN "Json"
    ELSE IF token.exp + Leeway < t THEN "ExpiredSignature"
    ELSE "ok"

\* From<jsonwebtoken::errors::Error> for ApiError.
ApiErrorFromJwt(e) == IF e = "ExpiredSignature" THEN "TokenExpired" ELSE "TokenInvalid"

\* A decoding that takes a token as whatever kind it says it is.
DecodeAs_AnyKind(kind, token, t) ==
    LET e == DecodeJwt(token.token_type, token, t)
    IN  IF e # "ok" THEN ApiErrorFromJwt(e) ELSE "ok"

\* decode_*_token: the decoding, `?`, then the token_type gate (which a token
\* of the right shape always passes). The result is "ok" or the error kind.
DecodeAs(kind, token, t) ==
    LET e == DecodeJwt(kind, token, t)
    IN  IF e # "ok" THEN ApiErrorFromJwt(e)
        ELSE IF token.token_type # kind THEN "TokenInvalid"
        ELSE "ok"

decode_access_token(token, t) == DecodeAs("access", token, t)
decode_refresh_token(token, t) == DecodeAs("refresh", token, t)

\* hex(Sha256(jti)): the stored token_hash.
NoHash == <<"sha256", 0>>
Sha256Hex(jti) == <<"sha256", jti>>

\* A sub claim that is not a UUID, and an access token the server's secret
\* signs over it. create_access_token never writes one: it takes a Uuid.
NotAUuid == "not-a-uuid"
NonUuidSub == [token_type |-> "access", sub |-> NotAUuid, email |-> "u1@x", jti |-> 0,
               exp |-> AccessTtl]

\* Uuid::parse_str(&claims.sub)
UuidParses(sub) == sub # NotAUuid

\* An extractor that takes the sub claim as it is.
AuthenticatedUser_AnySub(access, t) ==
    IF access.token_type = "none" THEN "Unauthorized"
    ELSE decode_access_token(access, t)

\* AuthenticatedUser::from_request: "ok" or the error kind.
AuthenticatedUser(access, t) ==
    IF access.token_type = "none" THEN "Unauthorized"
    ELSE IF decode_access_token(access, t) # "ok" THEN decode_access_token(access, t)
    ELSE IF ~UuidParses(access.sub) THEN "TokenInvalid"
    ELSE "ok"

\* ----------------------------------------------------------- auth codes
\* Six-digit codes, by where they come from: the code a user's sign-up
\* generated, the code the n-th accepted request generated, a code no request
\* generated, and no code at all.
SignUpCode(u) == <<"sign_up", IF u = "u1" THEN 1 ELSE 2>>
GeneratedCode(n) == <<"generated", n>>
WrongCode == <<"guess", 0>>
NoCode == <<"none", 0>>

\* generate_auth_code: rng.gen_range(100000..1000000), then to_string().
CodeMin == 100000
CodeMax == 999999

\* u32::to_string: the decimal digits, most significant first.
RECURSIVE to_string(_)
to_string(n) == IF n < 10 THEN <<n>> ELSE Append(to_string(n \div 10), n % 10)

\* Draws of the generator looked at: both ends of the range and values with
\* zeros inside.
CodeSamples == {CodeMin, CodeMin + 1, 100200, 123456, 500000, 909090, CodeMax - 1, CodeMax}

\* hash_code: hex(Sha256(code)).
hash_code(code) == <<"sha256", code>>

\* verify_code: the recomputed digest against the stored one.
verify_code(code, hash) == hash_code(code) = hash

\* ------------------------------------------------------ work sessions
\* Option<DateTime<Utc>> is a set: {} for None, {t} for Some(t).
\* WorkSessionWriteInput, and the value of a request that has built none.
NoInput ==
    [job_id |-> "", start_time |-> {}, end_time |-> {}, is_running |-> FALSE,
     accumulated_paused_duration |-> 0, paused_at |-> {}, time_reported |-> FALSE]

\* ----------------------------------------------------------- requests
Idle ==
    [kind |-> "none", pc |-> "idle", ordinal |-> 0, password |-> "none", user_id |-> NoUser,
     email |-> "", token_hash |-> NoHash,
     consumed |-> "unset", revoke_result |-> "unset",
     tx_open |-> FALSE, tx_rt |-> {}, tx_pw |-> NoPw, committed |-> FALSE,
     overlap |-> FALSE, resp |-> "none",
     auth_code |-> NoCode, code_id |-> 0, tx_codes |-> {}, tx_confirm |-> FALSE,
     sent |-> "unset", message |-> "", session_id |-> 0, input |-> NoInput]

\* Uuid::new_v4() and SaltString::generate(): a value no other request draws.
\* A request draws at most one jti and one salt, so its ordinal serves as both.
FreshValue(r) == req[r].ordinal

\* A slot is free before its first request and after a response.
Free(r) == req[r].pc \in {"idle", "done"}
InFlight(r) == req[r].pc \notin {"idle", "done"}

\* A request whose synchronous prefix ended in the record rec arrives in slot
\* r. A request answered at once leaves nothing behind. A set_password in
\* flight together with another request about the same user is marked.
Arrive(r, rec) ==
    LET meets(q) == q # r /\ InFlight(q) /\ req[q].user_id = rec.user_id
    IN  IF rec.pc = "done" THEN req
        ELSE [q \in ReqIds |->
                IF q = r
                THEN [rec EXCEPT !.ordinal = accepted + 1,
                                 !.overlap = rec.kind = "set_password"
                                             /\ \E p \in ReqIds : meets(p)]
                ELSE IF meets(q) /\ req[q].kind = "set_password"
                     THEN [req[q] EXCEPT !.overlap = TRUE]
                ELSE req[q]]

\* ------------------------------------------------------ store semantics
\* A store in which a row written by an open transaction does not block
\* other writers.
NeverLocked(r, i) == FALSE

\* Rows of refresh_tokens another open transaction has written (row locks).
LockedByOther(r, i) == \E q \in ReqIds \ {r} : req[q].tx_open /\ i \in req[q].tx_rt
UserLockedByOther(r, u) ==
    \E q \in ReqIds \ {r} :
        /\ req[q].tx_open
        /\ req[q].tx_pw # NoPw \/ req[q].tx_confirm
        /\ req[q].user_id = u

\* Rows of auth_codes another open transaction has written.
CodeLockedByOther(r, i) == \E q \in ReqIds \ {r} : req[q].tx_open /\ i \in req[q].tx_codes

Rows == 1..Len(refresh_tokens)

\* SELECT ... FROM users WHERE email = $1
FindUserByEmail(email) == {u \in Users : users[u].exists /\ users[u].email = email}

\* SELECT ... FROM users WHERE id = $1
find_user_by_id(user_id) == user_id \in Users /\ users[user_id].exists

\* An update that flips the revoked column instead of setting it.
MarkRevoked_Toggle(rows, S) ==
    [i \in 1..Len(rows) |->
        IF i \in S THEN [rows[i] EXCEPT !.revoked = ~rows[i].revoked] ELSE rows[i]]

\* UPDATE refresh_tokens SET revoked = true WHERE <S>
MarkRevoked(rows, S) ==
    [i \in 1..Len(rows) |-> IF i \in S THEN [rows[i] EXCEPT !.revoked = TRUE] ELSE rows[i]]

\* INSERT INTO refresh_tokens (user_id, token_hash, expires_at): revoked
\* takes the column default.
RefreshTokenRow(user_id, token_hash, expires_at) ==
    [user_id |-> user_id, token_hash |-> token_hash, expires_at |-> expires_at,
     revoked |-> FALSE]

\* An insert that stores the row twice.
create_refresh_token_row_Twice(rows, user_id, token_hash, expires_at) ==
    Append(Append(rows, RefreshTokenRow(user_id, token_hash, expires_at)),
           RefreshTokenRow(user_id, token_hash, expires_at))

create_refresh_token_row(rows, user_id, token_hash, expires_at) ==
    Append(rows, RefreshTokenRow(user_id, token_hash, expires_at))

\* A revoke whose WHERE clause matches nothing.
RevokeTargets_None(token_hash) == {}

\* A revoke that takes every session of the token's user.
RevokeTargets_WholeUser(token_hash) ==
    {i \in Rows : \E j \in Rows : /\ refresh_tokens[j].token_hash = token_hash
                                  /\ refresh_tokens[i].user_id = refresh_tokens[j].user_id}

\* revoke_refresh_token: WHERE token_hash = $1
RevokeTargets(token_hash) == {i \in Rows : refresh_tokens[i].token_hash = token_hash}

\* A revoke-all whose WHERE clause matches nothing.
RevokeAllTargets_None(user_id) == {}

\* revoke_all_user_refresh_tokens: WHERE user_id = $1
RevokeAllTargets(user_id) == {i \in Rows : refresh_tokens[i].user_id = user_id}

\* A consume that does not look at the revoked column.
ConsumeTargets_IgnoreRevoked(user_id, token_hash, t) ==
    {i \in 1..Len(refresh_tokens) :
        /\ refresh_tokens[i].user_id = user_id
        /\ refresh_tokens[i].token_hash = token_hash
        /\ refresh_tokens[i].expires_at > t}

\* A consume that does not look at the owner.
ConsumeTargets_AnyUser(user_id, token_hash, t) ==
    {i \in 1..Len(refresh_tokens) :
        /\ refresh_tokens[i].token_hash = token_hash
        /\ ~refresh_tokens[i].revoked
        /\ refresh_tokens[i].expires_at > t}

\* consume_active_refresh_token: one conditional UPDATE,
\* WHERE user_id = $1 AND token_hash = $2 AND revoked = false AND expires_at > now.
ConsumeTargets(user_id, token_hash, t) ==
    {i \in Rows : /\ refresh_tokens[i].user_id = user_id
                  /\ refresh_tokens[i].token_hash = token_hash
                  /\ ~refresh_tokens[i].revoked
                  /\ refresh_tokens[i].expires_at > t}

\* The rows a statement matches are free of other transactions' row locks
\* (otherwise the statement waits).
Unlocked(r, S) == \A i \in S : ~LockedByOther(r, i)

\* The tables after request r's transaction commits its pending writes.
TokensAfterCommit(r) == MarkRevoked(refresh_tokens, req[r].tx_rt)
UsersAfterCommit(r) ==
    LET u == req[r].user_id
        pw == IF req[r].tx_pw = NoPw THEN users
              ELSE [users EXCEPT ![u].hashed_password = req[r].tx_pw]
    IN  IF req[r].tx_confirm THEN [pw EXCEPT ![u].email_confirmed = TRUE] ELSE pw

\* A store in which the writes of a dropped transaction stay.
TokensAfterDrop_Kept(r) == MarkRevoked(refresh_tokens, req[r].tx_rt)

\* The tables after request r's transaction is dropped without commit
\* (an early return): sqlx rolls it back.
TokensAfterDrop(r) == refresh_tokens
UsersAfterDrop(r) == users

\* ------------------------------------------------------ auth_codes store
CodeRows == 1..Len(auth_codes)

\* INSERT INTO auth_codes (user_id, code_hash, code_type, expires_at): used
\* takes the column default, created_at the insertion instant.
AuthCodeRow(user_id, code_hash, code_type, expires_at) ==
    [user_id |-> user_id, code_hash |-> code_hash, code_type |-> code_type,
     expires_at |-> expires_at, used |-> FALSE]

create_auth_code(rows, user_id, code_hash, code_type, expires_at) ==
    Append(rows, AuthCodeRow(user_id, code_hash, code_type, expires_at))

\* The WHERE clause of find_valid_auth_code.
ValidCodes(user_id, code_type, t) ==
    {i \in CodeRows : /\ auth_codes[i].user_id = user_id
                      /\ auth_codes[i].code_type = code_type
                      /\ ~auth_codes[i].used
                      /\ auth_codes[i].expires_at > t}

\* A lookup that returns the oldest valid row.
find_valid_auth_code_Oldest(user_id, code_type, t) ==
    LET S == ValidCodes(user_id, code_type, t)
    IN  IF S = {} THEN 0 ELSE CHOOSE i \in S : \A j \in S : i <= j

\* find_valid_auth_code: ORDER BY created_at DESC LIMIT 1; the id of the row
\* (its place in the table), 0 for None.
find_valid_auth_code(user_id, code_type, t) ==
    LET S == ValidCodes(user_id, code_type, t)
    IN  IF S = {} THEN 0 ELSE CHOOSE i \in S : \A j \in S : j <= i

\* UPDATE auth_codes SET used = true WHERE <S>
MarkUsed(rows, S) ==
    [i \in 1..Len(rows) |-> IF i \in S THEN [rows[i] EXCEPT !.used = TRUE] ELSE rows[i]]

\* invalidate_password_reset_codes: WHERE user_id = $1 AND code_type =
\* 'password_reset' AND used = false
InvalidateTargets(user_id) ==
    {i \in CodeRows : /\ auth_codes[i].user_id = user_id
                      /\ auth_codes[i].code_type = "password_reset"
                      /\ ~auth_codes[i].used}

CodesUnlocked(r, S) == \A i \in S : ~CodeLockedByOther(r, i)

\* auth_codes after request r's transaction commits, and after it is dropped.
CodesAfterCommit(r) == MarkUsed(auth_codes, req[r].tx_codes)
CodesAfterDrop(r) == auth_codes

\* The handler returns: its locals and its transaction handle are gone; the
\* response stays, with the session it was about and what its store calls
\* returned.
Finish(rec, status) ==
    [Idle EXCEPT !.kind = rec.kind, !.pc = "done", !.resp = status,
                 !.user_id = rec.user_id, !.token_hash = rec.token_hash,
                 !.consumed = rec.consumed, !.revoke_result = rec.revoke_result,
                 !.overlap = rec.overlap, !.code_id = rec.code_id, !.sent = rec.sent,
                 !.message = rec.message]

Cookies == issued \cup {NoCookie, Forged}

\* ------------------------------------------------------------- Init
Init ==
    /\ users = [u \in Users |->
                   [exists |-> TRUE, email |-> EmailOf(u),
                    hashed_password |-> hash_password("p1", 0),
                    email_confirmed |-> TRUE]]
    /\ refresh_tokens = <<>>
    /\ now = 0
    /\ issued = {}
    /\ accepted = 0
    /\ req = [r \in ReqIds |-> Idle]
    /\ auth_codes = [i \in 1..2 |->
            LET u == IF i = 1 THEN "u1" ELSE "u2"
            IN  [AuthCodeRow(u, hash_code(SignUpCode(u)), "email_confirmation",
                             AuthCodeTtl) EXCEPT !.used = TRUE]]
    /\ email_calls = 0
    /\ work_sessions = <<>>

\* ------------------------------------------------------------ log_in
\* A log_in that looks at email_confirmed before the password.
LogInArrival_ConfirmedFirst(email, password, up) ==
    LET base == [Idle EXCEPT !.kind = "log_in", !.password = password]
        found == FindUserByEmail(email)
        u == CHOOSE x \in found : TRUE
    IN  IF ~up THEN Finish(base, "InternalError")
        ELSE IF found = {} THEN Finish(base, "InvalidCredentials")
        ELSE IF ~users[u].email_confirmed THEN Finish(base, "EmailNotConfirmed")
        ELSE IF ~verify_password(password, users[u].hashed_password)
             THEN Finish(base, "InvalidCredentials")
        ELSE [base EXCEPT !.pc = "li_insert", !.user_id = u, !.email = users[u].email]

\* A log_in that does not look at email_confirmed.
LogInArrival_NoConfirmCheck(email, password, up) ==
    LET base == [Idle EXCEPT !.kind = "log_in", !.password = password]
        found == FindUserByEmail(email)
        u == CHOOSE x \in found : TRUE
    IN  IF ~up THEN Finish(base, "InternalError")
        ELSE IF found = {} THEN Finish(base, "InvalidCredentials")
        ELSE IF verify_password_result(password, users[u].hashed_password) = "InternalError"
             THEN Finish(base, "InternalError")
        ELSE IF verify_password_result(password, users[u].hashed_password) = "false"
             THEN Finish(base, "InvalidCredentials")
        ELSE [base EXCEPT !.pc = "li_insert", !.user_id = u, !.email = users[u].email]

\* find_user_for_login, verify_password and the email_confirmed check: the
\* request's record after them.
LogInArrival(email, password, up) ==
    LET base == [Idle EXCEPT !.kind = "log_in", !.password = password]
        found == FindUserByEmail(email)
        u == CHOOSE x \in found : TRUE
    IN  IF ~up THEN Finish(base, "InternalError")
        ELSE IF found = {} THEN Finish(base, "InvalidCredentials")
        ELSE IF verify_password_result(password, users[u].hashed_password) = "InternalError"
             THEN Finish(base, "InternalError")
        ELSE IF verify_password_result(password, users[u].hashed_password) = "false"
             THEN Finish(base, "InvalidCredentials")
        ELSE IF ~users[u].email_confirmed THEN Finish(base, "EmailNotConfirmed")
        ELSE [base EXCEPT !.pc = "li_insert", !.user_id = u, !.email = users[u].email]

\* A log-in that passes the checks occupies slot r; one that does not is
\* answered at once and leaves the state as it was.
LogInFindUser(r, email, password) ==
    /\ Free(r)
    /\ accepted < MaxAccepted
    /\ LogInArrival(email, password, TRUE).pc # "done"
    /\ req' = Arrive(r, LogInArrival(email, password, TRUE))
    /\ accepted' = accepted + 1
    /\ UNCHANGED <<users, refresh_tokens, now, issued, auth_codes, email_calls, work_sessions>>

\* Token pair, then the refresh_tokens row, then the cookies.
IssueSession(r) ==
    LET u == req[r].user_id
        access == create_access_token(u, req[r].email, now, AccessTtl)
        refresh == create_refresh_token(u, FreshValue(r), now, RefreshTtl)
    IN  /\ refresh_tokens' = create_refresh_token_row(
                refresh_tokens, u, Sha256Hex(refresh.jti), now + RefreshTtl)
        /\ issued' = issued \cup {access, refresh}
        /\ req' = [req EXCEPT ![r] = Finish(req[r], "OK")]

LogInInsert(r) ==
    /\ req[r].pc = "li_insert"
    /\ IssueSession(r)
    /\ UNCHANGED <<users, now, accepted, auth_codes, email_calls, work_sessions>>

\* ----------------------------------------------------------- log_out
\* A log_out that rejects a request without a decodable refresh cookie.
LogOutArrival_Strict(refresh, t) ==
    LET base == [Idle EXCEPT !.kind = "log_out"]
    IN  IF refresh.token_type # "none" /\ decode_refresh_token(refresh, t) = "ok"
        THEN [base EXCEPT !.pc = "lo_revoke", !.user_id = refresh.sub,
                          !.token_hash = Sha256Hex(refresh.jti)]
        ELSE Finish(base, "Unauthorized")

\* The refresh cookie and its decoding: the request's record after them.
LogOutArrival(refresh, t) ==
    LET base == [Idle EXCEPT !.kind = "log_out"]
    IN  IF refresh.token_type # "none" /\ decode_refresh_token(refresh, t) = "ok"
        THEN [base EXCEPT !.pc = "lo_revoke", !.user_id = refresh.sub,
                          !.token_hash = Sha256Hex(refresh.jti)]
        ELSE Finish(base, "OK")

LogOutArrive(r, refresh) ==
    /\ Free(r)
    /\ accepted < MaxAccepted
    /\ LogOutArrival(refresh, now).pc # "done"
    /\ req' = Arrive(r, LogOutArrival(refresh, now))
    /\ accepted' = accepted + 1
    /\ UNCHANGED <<users, refresh_tokens, now, issued, auth_codes, email_calls, work_sessions>>

LogOutRevoke(r) ==
    /\ req[r].pc = "lo_revoke"
    /\ LET S == RevokeTargets(req[r].token_hash)
       IN  /\ Unlocked(r, S)
           /\ refresh_tokens' = MarkRevoked(refresh_tokens, S)
           /\ req' = [req EXCEPT ![r] =
                   [Finish(req[r], "OK") EXCEPT !.revoke_result = "ok"]]
    /\ UNCHANGED <<users, now, issued, accepted, auth_codes, email_calls, work_sessions>>

\* ------------------------------------------------------ set_password
\* A set_password that does not compare the two tokens' subjects.
SetPasswordArrival_NoSubjectCheck(access, refresh, password, up, t) ==
    LET base == [Idle EXCEPT !.kind = "set_password", !.password = password]
        auth == AuthenticatedUser(access, t)
        dec == decode_refresh_token(refresh, t)
        user == [base EXCEPT !.user_id = access.sub, !.email = access.email]
    IN  IF auth # "ok" THEN Finish(base, auth)
        ELSE IF refresh.token_type = "none" THEN Finish(user, "Unauthorized")
        ELSE IF dec # "ok" THEN Finish(user, dec)
        ELSE IF ~up THEN Finish(user, "InternalError")
        ELSE [user EXCEPT !.pc = "sp_consume", !.tx_open = TRUE,
                          !.token_hash = Sha256Hex(refresh.jti)]

\* The AuthenticatedUser extractor, the refresh cookie, its decoding, the
\* subject comparison and pool.begin(): the request's record after them.
SetPasswordArrival(access, refresh, password, up, t) ==
    LET base == [Idle EXCEPT !.kind = "set_password", !.password = password]
        auth == AuthenticatedUser(access, t)
        dec == decode_refresh_token(refresh, t)
        user == [base EXCEPT !.user_id = access.sub, !.email = access.email]
    IN  IF auth # "ok" THEN Finish(base, auth)
        ELSE IF refresh.token_type = "none" THEN Finish(user, "Unauthorized")
        ELSE IF dec # "ok" THEN Finish(user, dec)
        ELSE IF refresh.sub # access.sub THEN Finish(user, "Unauthorized")
        ELSE IF ~up THEN Finish(user, "InternalError")
        ELSE [user EXCEPT !.pc = "sp_consume", !.tx_open = TRUE,
                          !.token_hash = Sha256Hex(refresh.jti)]

SetPasswordArrive(r, access, refresh, password) ==
    /\ Free(r)
    /\ accepted < MaxAccepted
    /\ SetPasswordArrival(access, refresh, password, TRUE, now).pc # "done"
    /\ req' = Arrive(r, SetPasswordArrival(access, refresh, password, TRUE, now))
    /\ accepted' = accepted + 1
    /\ UNCHANGED <<users, refresh_tokens, now, issued, auth_codes, email_calls, work_sessions>>

\* consume_active_refresh_token(&mut tx, user_id, hash): the rows it updates
\* stay locked by, and visible only to, the transaction until it ends. Then
\* find_user_by_id(&state.pool, user_id), a read outside the transaction of
\* a column no request writes.
SetPasswordConsume(r) ==
    /\ req[r].pc = "sp_consume"
    /\ LET S == ConsumeTargets(req[r].user_id, req[r].token_hash, now)
           found == find_user_by_id(req[r].user_id)
           stop == S = {} \/ ~found
       IN  /\ Unlocked(r, S)
           /\ req' = [req EXCEPT ![r] =
                   IF S = {}
                   THEN [Finish(req[r], "Unauthorized") EXCEPT !.consumed = "false"]
                   ELSE IF ~found
                   THEN [Finish(req[r], "Unauthorized") EXCEPT !.consumed = "true"]
                   ELSE [req[r] EXCEPT !.consumed = "true", !.tx_rt = S,
                                       !.pc = "sp_update_pw"]]
           /\ users' = (IF stop THEN UsersAfterDrop(r) ELSE users)
           /\ refresh_tokens' = (IF stop THEN TokensAfterDrop(r) ELSE refresh_tokens)
    /\ UNCHANGED <<now, issued, accepted, auth_codes, email_calls, work_sessions>>

\* hash_password(&body.password)?, then update_user_password(&mut tx, ..).
SetPasswordUpdate(r) ==
    /\ req[r].pc = "sp_update_pw"
    /\ ~UserLockedByOther(r, req[r].user_id)
    /\ req' = [req EXCEPT ![r] =
            [req[r] EXCEPT !.tx_pw = hash_password(req[r].password, FreshValue(r)),
                           !.pc = "sp_revoke_all"]]
    /\ UNCHANGED <<users, refresh_tokens, now, issued, accepted, auth_codes, email_calls, work_sessions>>

\* hash_password fails: InternalError, the transaction is dropped.
SetPasswordHashFail(r) ==
    /\ req[r].pc = "sp_update_pw"
    /\ req' = [req EXCEPT ![r] = Finish(req[r], "InternalError")]
    /\ users' = UsersAfterDrop(r)
    /\ refresh_tokens' = TokensAfterDrop(r)
    /\ UNCHANGED <<now, issued, accepted, auth_codes, email_calls, work_sessions>>

\* revoke_all_user_refresh_tokens(&mut tx, user_id)
SetPasswordRevokeAll(r) ==
    /\ req[r].pc = "sp_revoke_all"
    /\ LET S == RevokeAllTargets(req[r].user_id)
       IN  /\ Unlocked(r, S)
           /\ req' = [req EXCEPT ![r] =
                   [req[r] EXCEPT !.tx_rt = req[r].tx_rt \cup S, !.pc = "sp_commit"]]
    /\ UNCHANGED <<users, refresh_tokens, now, issued, accepted, auth_codes, email_calls, work_sessions>>

\* A set_password that goes on to issue the session without committing.
SetPasswordCommit_Skipped(r) ==
    /\ req[r].pc = "sp_commit"
    /\ req' = [req EXCEPT ![r] = [req[r] EXCEPT !.pc = "sp_insert"]]
    /\ UNCHANGED <<users, refresh_tokens, now, issued, accepted, auth_codes, email_calls, work_sessions>>

\* tx.commit()
SetPasswordCommit(r) ==
    /\ req[r].pc = "sp_commit"
    /\ users' = UsersAfterCommit(r)
    /\ refresh_tokens' = TokensAfterCommit(r)
    /\ req' = [req EXCEPT ![r] =
            [req[r] EXCEPT !.tx_open = FALSE, !.committed = TRUE, !.pc = "sp_insert"]]
    /\ UNCHANGED <<now, issued, accepted, auth_codes, email_calls, work_sessions>>

\* After the commit: the new token pair and its refresh_tokens row.
SetPasswordInsert(r) ==
    /\ req[r].pc = "sp_insert"
    /\ IssueSession(r)
    /\ UNCHANGED <<users, now, accepted, auth_codes, email_calls, work_sessions>>

\* ------------------------------------------------- presented codes
\* Every code a behaviour can generate, and a guess.
AllCodes ==
    {SignUpCode(u) : u \in Users} \cup {GeneratedCode(n) : n \in 1..MaxAccepted}
    \cup {WrongCode}

\* Codes a client can present with an email: those stored for that account,
\* and a guess.
PresentedCodes(email) ==
    {auth_codes[i].code_hash[2] :
        i \in {j \in CodeRows : auth_codes[j].user_id \in FindUserByEmail(email)}}
    \cup {WrongCode}

\* ------------------------------------------------------ confirm_email
AlreadyConfirmed == "Email already confirmed."
ConfirmedNow == "Email confirmed successfully."

\* A confirm_email that rejects a code it cannot match even for a user who is
\* already confirmed.
ConfirmEmailArrival_ChecksCode(email, code, up) ==
    LET base == [Idle EXCEPT !.kind = "confirm_email", !.auth_code = code]
        found == FindUserByEmail(email)
        u == CHOOSE x \in found : TRUE
    IN  IF ~up THEN Finish(base, "InternalError")
        ELSE IF found = {} THEN Finish(base, "InvalidCredentials")
        ELSE IF users[u].email_confirmed
             THEN IF code = WrongCode THEN Finish([base EXCEPT !.user_id = u], "InvalidAuthCode")
                  ELSE Finish([base EXCEPT !.user_id = u, !.message = AlreadyConfirmed], "OK")
        ELSE [base EXCEPT !.pc = "ce_find_code", !.user_id = u, !.email = users[u].email]

\* A confirm_email without the email_confirmed shortcut.
ConfirmEmailArrival_NoShortcut(email, code, up) ==
    LET base == [Idle EXCEPT !.kind = "confirm_email", !.auth_code = code]
        found == FindUserByEmail(email)
        u == CHOOSE x \in found : TRUE
    IN  IF ~up THEN Finish(base, "InternalError")
        ELSE IF found = {} THEN Finish(base, "InvalidCredentials")
        ELSE [base EXCEPT !.pc = "ce_find_code", !.user_id = u, !.email = users[u].email]

\* find_user_for_confirmation and the email_confirmed check: the request's
\* record after them.
ConfirmEmailArrival(email, code, up) ==
    LET base == [Idle EXCEPT !.kind = "confirm_email", !.auth_code = code]
        found == FindUserByEmail(email)
        u == CHOOSE x \in found : TRUE
    IN  IF ~up THEN Finish(base, "InternalError")
        ELSE IF found = {} THEN Finish(base, "InvalidCredentials")
        ELSE IF users[u].email_confirmed
             THEN Finish([base EXCEPT !.user_id = u, !.message = AlreadyConfirmed], "OK")
        ELSE [base EXCEPT !.pc = "ce_find_code", !.user_id = u, !.email = users[u].email]

ConfirmEmailArrive(r, email, code) ==
    /\ Free(r)
    /\ accepted < MaxAccepted
    /\ code \in PresentedCodes(email)
    /\ ConfirmEmailArrival(email, code, TRUE).pc # "done"
    /\ req' = Arrive(r, ConfirmEmailArrival(email, code, TRUE))
    /\ accepted' = accepted + 1
    /\ UNCHANGED <<users, refresh_tokens, now, issued, auth_codes, email_calls, work_sessions>>

\* A code check that accepts whatever code is presented when a valid row
\* exists.
CheckCode_NoVerify(rec, code_type, next_pc) ==
    LET id == find_valid_auth_code(rec.user_id, code_type, now)
    IN  IF id = 0 THEN Finish(rec, "AuthCodeExpired")
        ELSE [rec EXCEPT !.code_id = id, !.pc = next_pc]

\* find_valid_auth_code, then verify_code on the row it returned: the
\* request's record after them.
CheckCode(rec, code_type, next_pc) ==
    LET id == find_valid_auth_code(rec.user_id, code_type, now)
    IN  IF id = 0 THEN Finish(rec, "AuthCodeExpired")
        ELSE IF ~verify_code(rec.auth_code, auth_codes[id].code_hash)
             THEN Finish(rec, "InvalidAuthCode")
        ELSE [rec EXCEPT !.code_id = id, !.pc = next_pc]

ConfirmEmailFindCode(r) ==
    /\ req[r].pc = "ce_find_code"
    /\ req' = [req EXCEPT ![r] = CheckCode(req[r], "email_confirmation", "ce_mark")]
    /\ UNCHANGED <<users, refresh_tokens, now, issued, accepted, auth_codes, email_calls, work_sessions>>

\* A confirm_email whose mark of the code goes straight to the pool instead
\* of the transaction.
ConfirmEmailMark_NoTx(r) ==
    /\ req[r].pc = "ce_mark"
    /\ CodesUnlocked(r, {req[r].code_id})
    /\ auth_codes' = MarkUsed(auth_codes, {req[r].code_id})
    /\ req' = [req EXCEPT ![r] = [req[r] EXCEPT !.tx_open = TRUE, !.pc = "ce_confirm"]]
    /\ UNCHANGED <<users, refresh_tokens, now, issued, accepted, email_calls, work_sessions>>

\* pool.begin() and mark_auth_code_used(&mut tx, auth_code.id)
ConfirmEmailMark(r) ==
    /\ req[r].pc = "ce_mark"
    /\ CodesUnlocked(r, {req[r].code_id})
    /\ req' = [req EXCEPT ![r] =
            [req[r] EXCEPT !.tx_open = TRUE, !.tx_codes = {req[r].code_id},
                           !.pc = "ce_confirm"]]
    /\ UNCHANGED <<users, refresh_tokens, now, issued, accepted, auth_codes, email_calls, work_sessions>>

\* confirm_user_email(&mut tx, user.id)
ConfirmEmailConfirmUser(r) ==
    /\ req[r].pc = "ce_confirm"
    /\ ~UserLockedByOther(r, req[r].user_id)
    /\ req' = [req EXCEPT ![r] = [req[r] EXCEPT !.tx_confirm = TRUE, !.pc = "ce_commit"]]
    /\ UNCHANGED <<users, refresh_tokens, now, issued, accepted, auth_codes, email_calls, work_sessions>>

\* tx.commit() and the response
ConfirmEmailCommit(r) ==
    /\ req[r].pc = "ce_commit"
    /\ users' = UsersAfterCommit(r)
    /\ auth_codes' = CodesAfterCommit(r)
    /\ req' = [req EXCEPT ![r] =
            Finish([req[r] EXCEPT !.message = ConfirmedNow], "OK")]
    /\ UNCHANGED <<refresh_tokens, now, issued, accepted, email_calls, work_sessions>>

\* ---------------------------------------------------- forgot_password
ResetSent == "If an account with this email exists, a password reset code has been sent."

\* A forgot_password that goes on when no user has the email.
ForgotPasswordArrival_NoLookup(email, up) ==
    LET base == [Idle EXCEPT !.kind = "forgot_password", !.message = ResetSent]
        found == FindUserByEmail(email)
        u == IF found = {} THEN NoUser ELSE CHOOSE x \in found : TRUE
    IN  IF ~up THEN Finish([base EXCEPT !.message = ""], "InternalError")
        ELSE [base EXCEPT !.pc = "fp_invalidate", !.user_id = u, !.email = email]

\* find_user_for_password_reset: the request's record after it.
ForgotPasswordArrival(email, up) ==
    LET base == [Idle EXCEPT !.kind = "forgot_password", !.message = ResetSent]
        found == FindUserByEmail(email)
        u == CHOOSE x \in found : TRUE
    IN  IF ~up THEN Finish([base EXCEPT !.message = ""], "InternalError")
        ELSE IF found = {} THEN Finish(base, "OK")
        ELSE [base EXCEPT !.pc = "fp_invalidate", !.user_id = u, !.email = email]

ForgotPasswordArrive(r, email) ==
    /\ Free(r)
    /\ accepted < MaxAccepted
    /\ ForgotPasswordArrival(email, TRUE).pc # "done"
    /\ req' = Arrive(r, ForgotPasswordArrival(email, TRUE))
    /\ accepted' = accepted + 1
    /\ UNCHANGED <<users, refresh_tokens, now, issued, auth_codes, email_calls, work_sessions>>

\* invalidate_password_reset_codes(&pool, user.id)
ForgotPasswordInvalidate(r) ==
    /\ req[r].pc = "fp_invalidate"
    /\ LET S == InvalidateTargets(req[r].user_id)
       IN  /\ CodesUnlocked(r, S)
           /\ auth_codes' = MarkUsed(auth_codes, S)
    /\ req' = [req EXCEPT ![r] = [req[r] EXCEPT !.pc = "fp_create"]]
    /\ UNCHANGED <<users, refresh_tokens, now, issued, accepted, email_calls, work_sessions>>

\* generate_auth_code, hash_code and create_auth_code
ForgotPasswordCreate(r) ==
    /\ req[r].pc = "fp_create"
    /\ auth_codes' = create_auth_code(auth_codes, req[r].user_id,
                                      hash_code(GeneratedCode(FreshValue(r))),
                                      "password_reset", now + AuthCodeTtl)
    /\ req' = [req EXCEPT ![r] =
            [req[r] EXCEPT !.auth_code = GeneratedCode(FreshValue(r)),
                           !.code_id = Len(auth_codes) + 1, !.pc = "fp_send"]]
    /\ UNCHANGED <<users, refresh_tokens, now, issued, accepted, email_calls, work_sessions>>

\* A forgot_password that returns the email sender's error.
ForgotPasswordSend_Hard(r, delivered) ==
    /\ req[r].pc = "fp_send"
    /\ email_calls' = email_calls + 1
    /\ req' = [req EXCEPT ![r] =
            IF delivered THEN Finish([req[r] EXCEPT !.sent = "ok"], "OK")
            ELSE Finish([req[r] EXCEPT !.sent = "err", !.message = ""], "InternalError")]
    /\ UNCHANGED <<users, refresh_tokens, now, issued, accepted, auth_codes, work_sessions>>

\* send_password_reset_email, its result discarded, and the response
ForgotPasswordSend(r, delivered) ==
    /\ req[r].pc = "fp_send"
    /\ email_calls' = email_calls + 1
    /\ req' = [req EXCEPT ![r] =
            Finish([req[r] EXCEPT !.sent = IF delivered THEN "ok" ELSE "err"], "OK")]
    /\ UNCHANGED <<users, refresh_tokens, now, issued, accepted, auth_codes, work_sessions>>

\* --------------------------------------------- verify_forgot_password
\* find_user_for_verification: the request's record after it.
VerifyForgotPasswordArrival(email, code, up) ==
    LET base == [Idle EXCEPT !.kind = "verify_forgot_password", !.auth_code = code]
        found == FindUserByEmail(email)
        u == CHOOSE x \in found : TRUE
    IN  IF ~up THEN Finish(base, "InternalError")
        ELSE IF found = {} THEN Finish(base, "InvalidCredentials")
        ELSE [base EXCEPT !.pc = "vf_find_code", !.user_id = u, !.email = users[u].email]

VerifyForgotPasswordArrive(r, email, code) ==
    /\ Free(r)
    /\ accepted < MaxAccepted
    /\ code \in PresentedCodes(email)
    /\ VerifyForgotPasswordArrival(email, code, TRUE).pc # "done"
    /\ req' = Arrive(r, VerifyForgotPasswordArrival(email, code, TRUE))
    /\ accepted' = accepted + 1
    /\ UNCHANGED <<users, refresh_tokens, now, issued, auth_codes, email_calls, work_sessions>>

VerifyForgotPasswordFindCode(r) ==
    /\ req[r].pc = "vf_find_code"
    /\ req' = [req EXCEPT ![r] = CheckCode(req[r], "password_reset", "vf_mark")]
    /\ UNCHANGED <<users, refresh_tokens, now, issued, accepted, auth_codes, email_calls, work_sessions>>

\* mark_auth_code_used_without_tx(&pool, auth_code.id)
VerifyForgotPasswordMark(r) ==
    /\ req[r].pc = "vf_mark"
    /\ CodesUnlocked(r, {req[r].code_id})
    /\ auth_codes' = MarkUsed(auth_codes, {req[r].code_id})
    /\ req' = [req EXCEPT ![r] = [req[r] EXCEPT !.pc = "vf_insert"]]
    /\ UNCHANGED <<users, refresh_tokens, now, issued, accepted, email_calls, work_sessions>>

\* The token pair and its refresh_tokens row.
VerifyForgotPasswordInsert(r) ==
    /\ req[r].pc = "vf_insert"
    /\ IssueSession(r)
    /\ UNCHANGED <<users, now, accepted, auth_codes, email_calls, work_sessions>>

\* ------------------------------------------------------------ sign_up
Created == "Account created. Please check your email for a confirmation code."

\* Ids no users row has yet.
FreeIds == {u \in Users : ~users[u].exists}

\* A users table that accepts a second row with the same email.
UniqueViolation_None(email) == FALSE

\* The users table holds one row per email: an INSERT of an email some row
\* already has is refused by the store.
UniqueViolation(email) == FindUserByEmail(email) # {}

\* A sign_up that does not look for the email first.
SignUpArrival_NoCheck(email, password, up) ==
    [Idle EXCEPT !.kind = "sign_up", !.password = password,
                 !.pc = "su_create_user", !.email = email]

\* check_email_exists: the request's record after it.
SignUpArrival(email, password, up) ==
    LET base == [Idle EXCEPT !.kind = "sign_up", !.password = password]
    IN  IF ~up THEN Finish(base, "InternalError")
        ELSE IF FindUserByEmail(email) # {} THEN Finish(base, "EmailAlreadyExists")
        ELSE [base EXCEPT !.pc = "su_create_user", !.email = email]

\* A sign-up that passes the check occupies slot r, as long as the table has
\* an id left for it.
SignUpArrive(r, email, password) ==
    /\ Free(r)
    /\ accepted < MaxAccepted
    /\ SignUpArrival(email, password, TRUE).pc # "done"
    /\ Cardinality(FreeIds) >
          Cardinality({q \in ReqIds : InFlight(q) /\ req[q].pc = "su_create_user"})
    /\ req' = Arrive(r, SignUpArrival(email, password, TRUE))
    /\ accepted' = accepted + 1
    /\ UNCHANGED <<users, refresh_tokens, now, issued, auth_codes, email_calls, work_sessions>>

\* hash_password(&body.password)?
SignUpHashFail(r) ==
    /\ req[r].pc = "su_create_user"
    /\ req' = [req EXCEPT ![r] = Finish(req[r], "InternalError")]
    /\ UNCHANGED <<users, refresh_tokens, now, issued, accepted, auth_codes, email_calls, work_sessions>>

\* A sign_up whose INSERT stores the user as confirmed.
SignUpCreateUser_Confirmed(r) ==
    /\ req[r].pc = "su_create_user"
    /\ IF UniqueViolation(req[r].email)
       THEN /\ req' = [req EXCEPT ![r] = Finish(req[r], "InternalError")]
            /\ UNCHANGED users
       ELSE LET u == CHOOSE x \in FreeIds : TRUE
            IN  /\ users' = [users EXCEPT ![u] =
                        [exists |-> TRUE, email |-> req[r].email,
                         hashed_password |-> hash_password(req[r].password, FreshValue(r)),
                         email_confirmed |-> TRUE]]
                /\ req' = [req EXCEPT ![r] =
                        [req[r] EXCEPT !.user_id = u, !.pc = "su_create_code"]]
    /\ UNCHANGED <<refresh_tokens, now, issued, accepted, auth_codes, email_calls, work_sessions>>

\* hash_password and create_user: INSERT INTO users (.., email_confirmed)
\* VALUES (.., false) RETURNING id
SignUpCreateUser(r) ==
    /\ req[r].pc = "su_create_user"
    /\ IF UniqueViolation(req[r].email)
       THEN /\ req' = [req EXCEPT ![r] = Finish(req[r], "InternalError")]
            /\ UNCHANGED users
       ELSE LET u == CHOOSE x \in FreeIds : TRUE
            IN  /\ users' = [users EXCEPT ![u] =
                        [exists |-> TRUE, email |-> req[r].email,
                         hashed_password |-> hash_password(req[r].password, FreshValue(r)),
                         email_confirmed |-> FALSE]]
                /\ req' = [req EXCEPT ![r] =
                        [req[r] EXCEPT !.user_id = u, !.pc = "su_create_code"]]
    /\ UNCHANGED <<refresh_tokens, now, issued, accepted, auth_codes, email_calls, work_sessions>>

\* generate_auth_code, hash_code and create_auth_code
SignUpCreateCode(r) ==
    /\ req[r].pc = "su_create_code"
    /\ auth_codes' = create_auth_code(auth_codes, req[r].user_id,
                                      hash_code(GeneratedCode(FreshValue(r))),
                                      "email_confirmation", now + AuthCodeTtl)
    /\ req' = [req EXCEPT ![r] =
            [req[r] EXCEPT !.auth_code = GeneratedCode(FreshValue(r)),
                           !.code_id = Len(auth_codes) + 1, !.pc = "su_send"]]
    /\ UNCHANGED <<users, refresh_tokens, now, issued, accepted, email_calls, work_sessions>>

\* send_confirmation_email(..).await? and the 201 response
SignUpSend(r, delivered) ==
    /\ req[r].pc = "su_send"
    /\ email_calls' = email_calls + 1
    /\ req' = [req EXCEPT ![r] =
            IF delivered
            THEN Finish([req[r] EXCEPT !.sent = "ok", !.message = Created], "Created")
            ELSE Finish([req[r] EXCEPT !.sent = "err"], "EmailServiceError")]
    /\ UNCHANGED <<users, refresh_tokens, now, issued, accepted, auth_codes, work_sessions>>

\* ------------------------------------------------------- store failures
\* A store call of request r returns an error. log_out discards the result of
\* its revoke; every other handler returns the error with `?`, which drops an
\* open transaction.
StoreCallPcs ==
    {"li_insert", "lo_revoke", "sp_consume", "sp_update_pw",
     "sp_revoke_all", "sp_commit", "sp_insert",
     "ce_find_code", "ce_mark", "ce_confirm", "ce_commit",
     "fp_invalidate", "fp_create", "vf_find_code", "vf_mark", "vf_insert",
     "su_create_user", "su_create_code", "ws_create", "ws_update"}

StoreError(r) ==
    /\ req[r].pc \in StoreCallPcs
    /\ req' = [req EXCEPT ![r] =
            IF req[r].kind = "log_out"
            THEN [Finish(req[r], "OK") EXCEPT !.revoke_result = "err"]
            ELSE Finish(req[r], "InternalError")]
    /\ users' = (IF req[r].tx_open THEN UsersAfterDrop(r) ELSE users)
    /\ refresh_tokens' = (IF req[r].tx_open THEN TokensAfterDrop(r) ELSE refresh_tokens)
    /\ auth_codes' = (IF req[r].tx_open THEN CodesAfterDrop(r) ELSE auth_codes)
    /\ UNCHANGED <<now, issued, accepted, email_calls, work_sessions>>

\* --------------------------------------------------------- environment
Tick ==
    /\ now < MaxTime
    /\ now' = now + 1
    /\ UNCHANGED <<users, refresh_tokens, issued, req, accepted, auth_codes, email_calls, work_sessions>>

Next ==
    \/ \E r \in ReqIds, e \in Emails, p \in Passwords : LogInFindUser(r, e, p)
    \/ \E r \in ReqIds : LogInInsert(r)
    \/ \E r \in ReqIds, c \in Cookies : LogOutArrive(r, c)
    \/ \E r \in ReqIds : LogOutRevoke(r)
    \/ \E r \in ReqIds, a \in Cookies, c \in Cookies, p \in NewPasswords :
            SetPasswordArrive(r, a, c, p)
    \/ \E r \in ReqIds : SetPasswordConsume(r)
    \/ \E r \in ReqIds : SetPasswordUpdate(r)
    \/ \E r \in ReqIds : SetPasswordHashFail(r)
    \/ \E r \in ReqIds : SetPasswordRevokeAll(r)
    \/ \E r \in ReqIds : SetPasswordCommit(r)
    \/ \E r \in ReqIds : SetPasswordInsert(r)
    \/ \E r \in ReqIds : StoreError(r)
    \/ Tick

Spec == Init /\ [][Next]_vars

\* ------------------------------------------- the auth-code handlers
\* After two sign-ups: u1 has not confirmed yet and its confirmation code is
\* still valid; u2 has confirmed with its code.
InitCodes ==
    /\ users = [u \in Users |->
                   [exists |-> TRUE, email |-> EmailOf(u),
                    hashed_password |-> hash_password("p1", 0),
                    email_confirmed |-> u = "u2"]]
    /\ refresh_tokens = <<>>
    /\ now = 0
    /\ issued = {}
    /\ accepted = 0
    /\ req = [r \in ReqIds |-> Idle]
    /\ auth_codes = [i \in 1..2 |->
            LET u == IF i = 1 THEN "u1" ELSE "u2"
            IN  [AuthCodeRow(u, hash_code(SignUpCode(u)), "email_confirmation",
                             AuthCodeTtl) EXCEPT !.used = u = "u2"]]
    /\ email_calls = 0
    /\ work_sessions = <<>>

\* confirm-email next to log-in.
NextConfirm ==
    \/ \E r \in ReqIds, e \in Emails, c \in AllCodes : ConfirmEmailArrive(r, e, c)
    \/ \E r \in ReqIds : ConfirmEmailFindCode(r)
    \/ \E r \in ReqIds : ConfirmEmailMark(r)
    \/ \E r \in ReqIds : ConfirmEmailConfirmUser(r)
    \/ \E r \in ReqIds : ConfirmEmailCommit(r)
    \/ \E r \in ReqIds, e \in Emails, p \in Passwords : LogInFindUser(r, e, p)
    \/ \E r \in ReqIds : LogInInsert(r)
    \/ \E r \in ReqIds : StoreError(r)
    \/ Tick

SpecConfirm == InitCodes /\ [][NextConfirm]_vars

\* forgot-password and verify-forgot-password.
NextReset ==
    \/ \E r \in ReqIds, e \in Emails : ForgotPasswordArrive(r, e)
    \/ \E r \in ReqIds : ForgotPasswordInvalidate(r)
    \/ \E r \in ReqIds : ForgotPasswordCreate(r)
    \/ \E r \in ReqIds, d \in BOOLEAN : ForgotPasswordSend(r, d)
    \/ \E r \in ReqIds, e \in Emails, c \in AllCodes :
            VerifyForgotPasswordArrive(r, e, c)
    \/ \E r \in ReqIds : VerifyForgotPasswordFindCode(r)
    \/ \E r \in ReqIds : VerifyForgotPasswordMark(r)
    \/ \E r \in ReqIds : VerifyForgotPasswordInsert(r)
    \/ \E r \in ReqIds : StoreError(r)
    \/ Tick

SpecReset == InitCodes /\ [][NextReset]_vars

\* The handlers that issue a session to a client without one: log-in, and
\* verify-forgot-password with the forgot-password before it.
NextSession ==
    \/ \E r \in ReqIds, e \in Emails : ForgotPasswordArrive(r, e)
    \/ \E r \in ReqIds : ForgotPasswordInvalidate(r)
    \/ \E r \in ReqIds : ForgotPasswordCreate(r)
    \/ \E r \in ReqIds, d \in BOOLEAN : ForgotPasswordSend(r, d)
    \/ \E r \in ReqIds, e \in Emails, c \in AllCodes :
            VerifyForgotPasswordArrive(r, e, c)
    \/ \E r \in ReqIds : VerifyForgotPasswordFindCode(r)
    \/ \E r \in ReqIds : VerifyForgotPasswordMark(r)
    \/ \E r \in ReqIds : VerifyForgotPasswordInsert(r)
    \/ \E r \in ReqIds, e \in Emails, p \in Passwords : LogInFindUser(r, e, p)
    \/ \E r \in ReqIds : LogInInsert(r)
    \/ \E r \in ReqIds : StoreError(r)
    \/ Tick

SpecSession == InitCodes /\ [][NextSession]_vars

\* All the handlers that read or write auth_codes.
NextCodes ==
    \/ \E r \in ReqIds, e \in Emails, c \in AllCodes : ConfirmEmailArrive(r, e, c)
    \/ \E r \in ReqIds : ConfirmEmailFindCode(r)
    \/ \E r \in ReqIds : ConfirmEmailMark(r)
    \/ \E r \in ReqIds : ConfirmEmailConfirmUser(r)
    \/ \E r \in ReqIds : ConfirmEmailCommit(r)
    \/ \E r \in ReqIds, e \in Emails : ForgotPasswordArrive(r, e)
    \/ \E r \in ReqIds : ForgotPasswordInvalidate(r)
    \/ \E r \in ReqIds : ForgotPasswordCreate(r)
    \/ \E r \in ReqIds, d \in BOOLEAN : ForgotPasswordSend(r, d)
    \/ \E r \in ReqIds, e \in Emails, c \in AllCodes :
            VerifyForgotPasswordArrive(r, e, c)
    \/ \E r \in ReqIds : VerifyForgotPasswordFindCode(r)
    \/ \E r \in ReqIds : VerifyForgotPasswordMark(r)
    \/ \E r \in ReqIds : VerifyForgotPasswordInsert(r)
    \/ \E r \in ReqIds : StoreError(r)
    \/ Tick

SpecCodes == InitCodes /\ [][NextCodes]_vars

\* --------------------------------------------------------------- sign-up
\* An empty users table.
NoRow == [exists |-> FALSE, email |-> "", hashed_password |-> NoPw, email_confirmed |-> FALSE]

InitSignUp ==
    /\ users = [u \in Users |-> NoRow]
    /\ refresh_tokens = <<>>
    /\ now = 0
    /\ issued = {}
    /\ accepted = 0
    /\ req = [r \in ReqIds |-> Idle]
    /\ auth_codes = <<>>
    /\ email_calls = 0
    /\ work_sessions = <<>>

NextSignUp ==
    \/ \E r \in ReqIds, e \in Emails, p \in Passwords : SignUpArrive(r, e, p)
    \/ \E r \in ReqIds : SignUpHashFail(r)
    \/ \E r \in ReqIds : SignUpCreateUser(r)
    \/ \E r \in ReqIds : SignUpCreateCode(r)
    \/ \E r \in ReqIds, d \in BOOLEAN : SignUpSend(r, d)
    \/ \E r \in ReqIds : StoreError(r)
    \/ Tick

SpecSignUp == InitSignUp /\ [][NextSignUp]_vars

\* ------------------------------------------- tokens under a secret
\* The signing secrets: the server's (env.jwt_secret) and another one.
JwtSecret == "k1"
Secrets == {JwtSecret, "k2"}
Ttls == {0, 1}
TokenEmails == {"u1@x", "u2@x"}

\* encode(&Header::default(), &claims, &EncodingKey::from_secret(secret)):
\* the claims and their MAC under the secret.
Mac(claims, secret) == <<"HS256", claims, secret>>
encode(claims, secret) == [claims |-> claims, mac |-> Mac(claims, secret)]

\* A verification that does not look at the MAC.
decode_NoSignature(kind, jwt, secret, t) == DecodeAs(kind, jwt.claims, t)

\* decode(token, &DecodingKey::from_secret(secret), ..) inside decode_*_token:
\* the MAC is recomputed under the verifier's secret before anything else.
decode(kind, jwt, secret, t) ==
    IF jwt.mac # Mac(jwt.claims, secret) THEN ApiErrorFromJwt("InvalidSignature")
    ELSE DecodeAs(kind, jwt.claims, t)

\* The last call of decode_access_token / decode_refresh_token by a caller:
\* its arguments, the instant, and Ok(claims) or Err(error).
Decoded(kind, jwt, secret, t) ==
    LET e == decode(kind, jwt, secret, t)
    IN  [kind |-> kind, pc |-> "done", token |-> jwt, secret |-> secret, at |-> t,
         resp |-> e, claims |-> IF e = "ok" THEN jwt.claims ELSE NoCookie]

\* The one caller of the decoding functions.
Caller == "t1"

IssueAccess(u, e, s, ttl) ==
    /\ accepted < MaxAccepted
    /\ issued' = issued \cup {encode(create_access_token(u, e, now, ttl), s)}
    /\ accepted' = accepted + 1
    /\ UNCHANGED <<users, refresh_tokens, now, req, auth_codes, email_calls, work_sessions>>

IssueRefresh(u, s, ttl) ==
    /\ accepted < MaxAccepted
    /\ issued' = issued \cup {encode(create_refresh_token(u, accepted + 1, now, ttl), s)}
    /\ accepted' = accepted + 1
    /\ UNCHANGED <<users, refresh_tokens, now, req, auth_codes, email_calls, work_sessions>>

DecodeAccess(jwt, s) ==
    /\ accepted < MaxAccepted
    /\ jwt \in issued
    /\ req' = [req EXCEPT ![Caller] = Decoded("access", jwt, s, now)]
    /\ accepted' = accepted + 1
    /\ UNCHANGED <<users, refresh_tokens, now, issued, auth_codes, email_calls, work_sessions>>

DecodeRefresh(jwt, s) ==
    /\ accepted < MaxAccepted
    /\ jwt \in issued
    /\ req' = [req EXCEPT ![Caller] = Decoded("refresh", jwt, s, now)]
    /\ accepted' = accepted + 1
    /\ UNCHANGED <<users, refresh_tokens, now, issued, auth_codes, email_calls, work_sessions>>

\* Every token the issuing functions can return within the bounds.
AllJwts ==
    {encode(c, s) :
        c \in {create_access_token(u, e, t, ttl) :
                  u \in Users, e \in TokenEmails, t \in 0..MaxTime, ttl \in Ttls},
        s \in Secrets}
    \cup {encode(create_refresh_token(u, j, t, ttl), JwtSecret) :
                  u \in Users, j \in 1..MaxAccepted, t \in 0..MaxTime, ttl \in Ttls}

InitJwt ==
    /\ users = [u \in Users |-> NoRow]
    /\ refresh_tokens = <<>>
    /\ now = 0
    /\ issued = {}
    /\ accepted = 0
    /\ req = [r \in ReqIds |-> Idle]
    /\ auth_codes = <<>>
    /\ email_calls = 0
    /\ work_sessions = <<>>

NextJwt ==
    \/ \E u \in Users, e \in TokenEmails, s \in Secrets, ttl \in Ttls : IssueAccess(u, e, s, ttl)
    \/ \E u \in Users, ttl \in Ttls : IssueRefresh(u, JwtSecret, ttl)
    \/ \E jwt \in AllJwts, s \in Secrets : DecodeAccess(jwt, s)
    \/ \E jwt \in AllJwts, s \in Secrets : DecodeRefresh(jwt, s)
    \/ Tick

SpecJwt == InitJwt /\ [][NextJwt]_vars

\* ------------------------------------------- code digests as strings
\* u8 arithmetic, bit by bit: a ^ b and a | b.
RECURSIVE BitXor(_, _)
BitXor(a, b) ==
    IF a = 0 /\ b = 0 THEN 0
    ELSE (((a % 2) + (b % 2)) % 2) + 2 * BitXor(a \div 2, b \div 2)
RECURSIVE BitOr(_, _)
BitOr(a, b) ==
    IF a = 0 /\ b = 0 THEN 0
    ELSE (IF a % 2 = 1 \/ b % 2 = 1 THEN 1 ELSE 0) + 2 * BitOr(a \div 2, b \div 2)

\* hex::encode: the ASCII byte of a hex digit.
HexByte(v) == IF v < 10 THEN 48 + v ELSE 87 + v

\* hash_code on the digits of a code: a hex string of fixed length that
\* differs for different codes (each digit decides one hex digit).
hash_code_hex(code) == [i \in 1..Len(code) |-> HexByte((7 * code[i] + i) % 16)]

\* constant_time_compare: the length test, then the fold over all byte pairs.
RECURSIVE FoldXor(_, _, _, _)
FoldXor(a, b, i, result) ==
    IF i > Len(a) THEN result
    ELSE FoldXor(a, b, i + 1, BitOr(result, BitXor(a[i], b[i])))
constant_time_compare(a, b) ==
    IF Len(a) # Len(b) THEN FALSE ELSE FoldXor(a, b, 1, 0) = 0

\* verify_code on digit strings and hex strings.
verify_code_hex(code, hash) == constant_time_compare(hash_code_hex(code), hash)

\* The strings compared: the digests of the sample codes and strings of
\* other lengths, among them a digest cut short.
CompareInputs ==
    {hash_code_hex(to_string(n)) : n \in CodeSamples}
    \cup {<<>>, <<48>>, <<48, 49>>, SubSeq(hash_code_hex(to_string(CodeMin)), 1, 5)}

\* constant_time_compare, statement by statement, in the caller's record:
\* the length test and `let mut result = 0u8`.
CompareCall(a, b) ==
    /\ accepted < MaxAccepted
    /\ req[Caller].pc \in {"idle", "done"}
    /\ req' = [req EXCEPT ![Caller] =
                  [kind |-> "compare", a |-> a, b |-> b, i |-> 0, result |-> 0,
                   pc |-> IF Len(a) # Len(b) THEN "done" ELSE "loop",
                   ret |-> FALSE]]
    /\ accepted' = accepted + 1
    /\ UNCHANGED <<users, refresh_tokens, now, issued, auth_codes, email_calls, work_sessions>>

\* A loop that leaves at the first pair of different bytes.
CompareStep_EarlyExit ==
    /\ req[Caller].pc = "loop"
    /\ req[Caller].i < Len(req[Caller].a)
    /\ LET i == req[Caller].i + 1
           x == BitXor(req[Caller].a[i], req[Caller].b[i])
       IN  req' = [req EXCEPT ![Caller].i = i,
                              ![Caller].result = BitOr(req[Caller].result, x),
                              ![Caller].pc = IF x # 0 THEN "done" ELSE "loop"]
    /\ UNCHANGED <<users, refresh_tokens, now, issued, accepted, auth_codes, email_calls, work_sessions>>

\* One iteration: result |= byte_a ^ byte_b.
CompareStep ==
    /\ req[Caller].pc = "loop"
    /\ req[Caller].i < Len(req[Caller].a)
    /\ LET i == req[Caller].i + 1
       IN  req' = [req EXCEPT ![Caller].i = i,
                              ![Caller].result =
                                  BitOr(req[Caller].result,
                                        BitXor(req[Caller].a[i], req[Caller].b[i]))]
    /\ UNCHANGED <<users, refresh_tokens, now, issued, accepted, auth_codes, email_calls, work_sessions>>

\* The iterator is exhausted: result == 0.
CompareReturn ==
    /\ req[Caller].pc = "loop"
    /\ req[Caller].i = Len(req[Caller].a)
    /\ req' = [req EXCEPT ![Caller].pc = "done",
                          ![Caller].ret = (req[Caller].result = 0)]
    /\ UNCHANGED <<users, refresh_tokens, now, issued, accepted, auth_codes, email_calls, work_sessions>>

NextCompare ==
    \/ \E a \in CompareInputs, b \in CompareInputs : CompareCall(a, b)
    \/ CompareStep
    \/ CompareReturn

SpecCompare == InitJwt /\ [][NextCompare]_vars

\* ------------------------------------------- log_in over foreign hashes
\* A users table in which u1's stored hash was not written by hash_password.
InitPassword ==
    /\ users \in {[u \in Users |->
                     [exists |-> TRUE, email |-> EmailOf(u),
                      hashed_password |-> IF u = "u1" THEN h ELSE hash_password("p1", 0),
                      email_confirmed |-> TRUE]] :
                  h \in {MalformedHash, UnsupportedHash}}
    /\ refresh_tokens = <<>>
    /\ now = 0
    /\ issued = {}
    /\ accepted = 0
    /\ req = [r \in ReqIds |-> Idle]
    /\ auth_codes = <<>>
    /\ email_calls = 0
    /\ work_sessions = <<>>

NextPassword ==
    \/ \E r \in ReqIds, e \in Emails, p \in Passwords : LogInFindUser(r, e, p)
    \/ \E r \in ReqIds : LogInInsert(r)
    \/ \E r \in ReqIds : StoreError(r)
    \/ Tick

SpecPassword == InitPassword /\ [][NextPassword]_vars

\* ------------------------------------------- the work-session handlers
\* The jobs table: one job per user; no handler modelled here writes it.
Jobs == {"j1", "j2"}
JobOwner(job_id) == IF job_id = "j1" THEN "u1" ELSE "u2"

\* SELECT COUNT(*) FROM jobs WHERE id = $1 AND user_id = $2; count > 0
job_exists_for_user(user_id, job_id) == job_id \in Jobs /\ JobOwner(job_id) = user_id

SessionIds == 1..Len(work_sessions)

\* find_active_for_user: the user's sessions without an end_time.
find_active_for_user(user_id) ==
    {i \in SessionIds : work_sessions[i].user_id = user_id /\ work_sessions[i].end_time = {}}

\* A find_by_id_for_user that does not compare the user.
find_by_id_for_user_AnyUser(user_id, id) == {i \in SessionIds : i = id}

\* SELECT ... FROM work_sessions WHERE id = $1 AND user_id = $2
find_by_id_for_user(user_id, id) ==
    {i \in SessionIds : i = id /\ work_sessions[i].user_id = user_id}

WorkSessionRow(user_id, input) ==
    [user_id |-> user_id, job_id |-> input.job_id, start_time |-> input.start_time,
     end_time |-> input.end_time, is_running |-> input.is_running,
     accumulated_paused_duration |-> input.accumulated_paused_duration,
     paused_at |-> input.paused_at, time_reported |-> input.time_reported]

\* INSERT INTO work_sessions (...) VALUES (...)
create_for_user(rows, user_id, input) == Append(rows, WorkSessionRow(user_id, input))

\* UPDATE work_sessions SET <every column of the input> WHERE id = $8 AND user_id = $9
update_for_user(rows, user_id, id, input) ==
    [i \in 1..Len(rows) |->
        IF i = id /\ rows[i].user_id = user_id THEN WorkSessionRow(user_id, input)
        ELSE rows[i]]

\* (Utc::now() - paused_at).num_seconds().max(0)
pause_duration(t, paused_at) ==
    LET p == CHOOSE x \in paused_at : TRUE IN IF t - p > 0 THEN t - p ELSE 0

\* The session row as a write input: the handlers copy every field they do
\* not change.
InputOf(row) ==
    [job_id |-> row.job_id, start_time |-> row.start_time, end_time |-> row.end_time,
     is_running |-> row.is_running,
     accumulated_paused_duration |-> row.accumulated_paused_duration,
     paused_at |-> row.paused_at, time_reported |-> row.time_reported]

\* A finished work-session request keeps the id of the session it named.
WsFinish(rec, status, message) ==
    [Finish(rec, status) EXCEPT !.session_id = rec.session_id, !.message = message]

\* A start that does not look for an active session.
start_work_session_NoActiveCheck(access, job_id, up, t) ==
    LET base == [Idle EXCEPT !.kind = "start_work_session"]
        auth == AuthenticatedUser(access, t)
        user == [base EXCEPT !.user_id = access.sub]
    IN  IF auth # "ok" THEN Finish(base, auth)
        ELSE IF ~up THEN Finish(user, "InternalError")
        ELSE IF ~job_exists_for_user(access.sub, job_id)
             THEN WsFinish(user, "NotFound", "Job not found")
        ELSE [user EXCEPT !.pc = "ws_create",
                          !.input = [NoInput EXCEPT !.job_id = job_id,
                                                    !.start_time = {t},
                                                    !.is_running = TRUE]]

\* start_work_session up to the write input: the extractor, job_exists_for_user,
\* find_active_for_user.
start_work_session(access, job_id, up, t) ==
    LET base == [Idle EXCEPT !.kind = "start_work_session"]
        auth == AuthenticatedUser(access, t)
        user == [base EXCEPT !.user_id = access.sub]
    IN  IF auth # "ok" THEN Finish(base, auth)
        ELSE IF ~up THEN Finish(user, "InternalError")
        ELSE IF ~job_exists_for_user(access.sub, job_id)
             THEN WsFinish(user, "NotFound", "Job not found")
        ELSE IF find_active_for_user(access.sub) # {}
             THEN WsFinish(user, "ValidationError", "An active work session already exists")
        ELSE [user EXCEPT !.pc = "ws_create",
                          !.input = [NoInput EXCEPT !.job_id = job_id,
                                                    !.start_time = {t},
                                                    !.is_running = TRUE]]

\* The checks of pause, resume and complete on the row they read, and the
\* input each builds from it: "" when the row passes, the message otherwise.
Refusal(kind, row) ==
    IF kind = "pause_work_session"
    THEN IF row.end_time # {} THEN "Cannot pause a completed work session"
         ELSE IF ~row.is_running THEN "Work session is not currently running"
         ELSE ""
    ELSE IF kind = "resume_work_session"
    THEN IF row.end_time # {} THEN "Cannot resume a completed work session"
         ELSE IF row.is_running THEN "Work session is already running"
         ELSE IF row.paused_at = {} THEN "Work session is not currently paused"
         ELSE ""
    ELSE IF row.end_time # {} THEN "Work session is already completed"
         ELSE ""

\* Write inputs in which complete keeps the paused_at it read.
WriteInput_KeepPausedAt(kind, row, t) ==
    IF kind = "pause_work_session"
    THEN [InputOf(row) EXCEPT !.end_time = {}, !.is_running = FALSE, !.paused_at = {t}]
    ELSE IF kind = "resume_work_session"
    THEN [InputOf(row) EXCEPT
             !.end_time = {}, !.is_running = TRUE, !.paused_at = {},
             !.accumulated_paused_duration =
                 row.accumulated_paused_duration + pause_duration(t, row.paused_at)]
    ELSE [InputOf(row) EXCEPT !.end_time = {t}, !.is_running = FALSE]

WriteInput(kind, row, t) ==
    IF kind = "pause_work_session"
    THEN [InputOf(row) EXCEPT !.end_time = {}, !.is_running = FALSE, !.paused_at = {t}]
    ELSE IF kind = "resume_work_session"
    THEN [InputOf(row) EXCEPT
             !.end_time = {}, !.is_running = TRUE, !.paused_at = {},
             !.accumulated_paused_duration =
                 row.accumulated_paused_duration + pause_duration(t, row.paused_at)]
    ELSE [InputOf(row) EXCEPT
             !.end_time = {t}, !.is_running = FALSE, !.paused_at = {},
             !.accumulated_paused_duration =
                 IF row.paused_at # {}
                 THEN row.accumulated_paused_duration + pause_duration(t, row.paused_at)
                 ELSE row.accumulated_paused_duration]

TransitionKinds == {"pause_work_session", "resume_work_session", "complete_work_session"}

\* Handlers that write whatever the row's state is.
transition_work_session_Unguarded(kind, access, id, up, t) ==
    LET base == [Idle EXCEPT !.kind = kind, !.session_id = id]
        auth == AuthenticatedUser(access, t)
        user == [base EXCEPT !.user_id = access.sub]
        found == find_by_id_for_user(access.sub, id)
    IN  IF auth # "ok" THEN Finish(base, auth)
        ELSE IF ~up THEN Finish(user, "InternalError")
        ELSE IF found = {} THEN WsFinish(user, "NotFound", "Work session not found")
        ELSE IF kind = "resume_work_session" /\ work_sessions[id].paused_at = {}
             THEN WsFinish(user, "ValidationError", Refusal(kind, work_sessions[id]))
        ELSE [user EXCEPT !.pc = "ws_update",
                          !.input = WriteInput(kind, work_sessions[id], t)]

\* pause_work_session, resume_work_session and complete_work_session up to
\* the write input: the extractor, find_by_id_for_user, the checks.
transition_work_session(kind, access, id, up, t) ==
    LET base == [Idle EXCEPT !.kind = kind, !.session_id = id]
        auth == AuthenticatedUser(access, t)
        user == [base EXCEPT !.user_id = access.sub]
        found == find_by_id_for_user(access.sub, id)
    IN  IF auth # "ok" THEN Finish(base, auth)
        ELSE IF ~up THEN Finish(user, "InternalError")
        ELSE IF found = {} THEN WsFinish(user, "NotFound", "Work session not found")
        ELSE IF Refusal(kind, work_sessions[id]) # ""
             THEN WsFinish(user, "ValidationError", Refusal(kind, work_sessions[id]))
        ELSE [user EXCEPT !.pc = "ws_update",
                          !.input = WriteInput(kind, work_sessions[id], t)]

StartArrive(r, access, job_id) ==
    /\ Free(r)
    /\ accepted < MaxAccepted
    /\ start_work_session(access, job_id, TRUE, now).pc # "done"
    /\ req' = Arrive(r, start_work_session(access, job_id, TRUE, now))
    /\ accepted' = accepted + 1
    /\ UNCHANGED <<users, refresh_tokens, now, issued, auth_codes, email_calls, work_sessions>>

\* create_for_user and the Created response.
StartCreate(r) ==
    /\ req[r].pc = "ws_create"
    /\ work_sessions' = create_for_user(work_sessions, req[r].user_id, req[r].input)
    /\ req' = [req EXCEPT ![r] =
                  [WsFinish(req[r], "Created", "") EXCEPT
                      !.session_id = Len(work_sessions) + 1]]
    /\ UNCHANGED <<users, refresh_tokens, now, issued, accepted, auth_codes, email_calls>>

TransitionArrive(r, kind, access, id) ==
    /\ Free(r)
    /\ accepted < MaxAccepted
    /\ transition_work_session(kind, access, id, TRUE, now).pc # "done"
    /\ req' = Arrive(r, transition_work_session(kind, access, id, TRUE, now))
    /\ accepted' = accepted + 1
    /\ UNCHANGED <<users, refresh_tokens, now, issued, auth_codes, email_calls, work_sessions>>

\* update_for_user(..).ok_or(NotFound) and the Ok response.
TransitionUpdate(r) ==
    /\ req[r].pc = "ws_update"
    /\ IF find_by_id_for_user(req[r].user_id, req[r].session_id) = {}
       THEN /\ req' = [req EXCEPT ![r] =
                          WsFinish(req[r], "NotFound", "Work session not found")]
            /\ UNCHANGED work_sessions
       ELSE /\ work_sessions' = update_for_user(work_sessions, req[r].user_id,
                                                req[r].session_id, req[r].input)
            /\ req' = [req EXCEPT ![r] = WsFinish(req[r], "OK", "")]
    /\ UNCHANGED <<users, refresh_tokens, now, issued, accepted, auth_codes, email_calls>>

\* get_active_work_session: the extractor, find_active_for_user and the
\* response; found is the Option the store returned, as a set.
get_active_work_session(access, found, up, t) ==
    LET base == [Idle EXCEPT !.kind = "get_active_work_session"]
        auth == AuthenticatedUser(access, t)
        user == [base EXCEPT !.user_id = access.sub]
    IN  IF auth # "ok" THEN Finish(base, auth)
        ELSE IF ~up THEN Finish(user, "InternalError")
        ELSE IF found = {} THEN WsFinish(user, "NotFound", "No active work session found")
        ELSE [WsFinish(user, "OK", "") EXCEPT !.session_id = CHOOSE i \in found : TRUE]

\* A get-active request that reaches the store: it is answered with one of the
\* caller's active sessions (row i when there are several), or NotFound.
GetActive(r, access, i) ==
    /\ Free(r)
    /\ accepted < MaxAccepted
    /\ AuthenticatedUser(access, now) = "ok"
    /\ LET active == find_active_for_user(access.sub)
           found == {i} \cap active
       IN  /\ active # {} => found # {}
           /\ active = {} => i = 1
           /\ req' = [req EXCEPT ![r] =
                         [get_active_work_session(access, found, TRUE, now) EXCEPT
                             !.ordinal = accepted + 1]]
    /\ accepted' = accepted + 1
    /\ UNCHANGED <<users, refresh_tokens, now, issued, auth_codes, email_calls, work_sessions>>

\* The cookies a client may send: the access token of either user, a refresh
\* token, a token over a sub that is not a UUID, a forged one, and none.
WsTokens ==
    {create_access_token(u, EmailOf(u), 0, AccessTtl) : u \in Users}
    \cup {create_refresh_token("u1", 1, 0, RefreshTtl)}
WsCookies == WsTokens \cup {NoCookie, Forged, NonUuidSub}
WsIds == 1..MaxAccepted

\* Both users have logged in; no work session yet.
InitWork ==
    /\ users = [u \in Users |->
                   [exists |-> TRUE, email |-> EmailOf(u),
                    hashed_password |-> hash_password("p1", 0),
                    email_confirmed |-> TRUE]]
    /\ refresh_tokens = <<>>
    /\ now = 0
    /\ issued = WsTokens
    /\ accepted = 0
    /\ req = [r \in ReqIds |-> Idle]
    /\ auth_codes = <<>>
    /\ email_calls = 0
    /\ work_sessions = <<>>

NextWork ==
    \/ \E r \in ReqIds, a \in WsCookies, j \in Jobs : StartArrive(r, a, j)
    \/ \E r \in ReqIds : StartCreate(r)
    \/ \E r \in ReqIds, k \in TransitionKinds, a \in WsCookies, i \in WsIds :
            TransitionArrive(r, k, a, i)
    \/ \E r \in ReqIds : TransitionUpdate(r)
    \/ \E r \in ReqIds, a \in WsCookies, i \in WsIds : GetActive(r, a, i)
    \/ \E r \in ReqIds : StoreError(r)
    \/ Tick

SpecWork == InitWork /\ [][NextWork]_vars

\* User u1 has started a session and paused it at once.
InitPaused ==
    /\ users = [u \in Users |->
                   [exists |-> TRUE, email |-> EmailOf(u),
                    hashed_password |-> hash_password("p1", 0),
                    email_confirmed |-> TRUE]]
    /\ refresh_tokens = <<>>
    /\ now = 0
    /\ issued = WsTokens
    /\ accepted = 0
    /\ req = [r \in ReqIds |-> Idle]
    /\ auth_codes = <<>>
    /\ email_calls = 0
    /\ work_sessions =
          <<WorkSessionRow("u1", [NoInput EXCEPT !.job_id = "j1", !.start_time = {0},
                                                 !.paused_at = {0}])>>

SpecPaused == InitPaused /\ [][NextWork]_vars

\* ------------------------------------------------------------ properties
\* Request l is a log-out and request s a set-password that presented the
\* same refresh session.
SameSession(l, s) ==
    /\ req[l].kind = "log_out"
    /\ req[s].kind = "set_password"
    /\ req[l].token_hash = req[s].token_hash
    /\ req[l].token_hash # NoHash

\* The committed rows stored under a token hash.
RowsOf(token_hash) == {i \in Rows : refresh_tokens[i].token_hash = token_hash}

\* A committed row that is neither revoked nor expired.
Active(i) == ~refresh_tokens[i].revoked /\ refresh_tokens[i].expires_at > now

\* C1: in every interleaving of a log-out and a set-password on the same
\* refresh session, once the log-out's revoke has taken effect the
\* set-password's consume step ends the request: it does not succeed, it
\* answers Unauthorized whenever the consume call returns, and the users table
\* (so the stored password hash) is as before.
C1_RevokedSessionCannotSetPassword ==
    [][\A l, s \in ReqIds :
          ( /\ SameSession(l, s)
            /\ req[l].pc = "done"
            /\ req[l].revoke_result = "ok"
            /\ req[s].pc = "sp_consume"
            /\ req'[s].pc # "sp_consume" )
          => /\ req'[s].pc = "done"
             /\ req'[s].resp # "OK"
             /\ req'[s].consumed # "true"
             /\ (req'[s].consumed = "false" => req'[s].resp = "Unauthorized")
             /\ users' = users]_vars

\* A log-out revoked a session that has not expired, and a set-password that
\* presented it afterwards was answered Unauthorized.
C1_Witness ==
    \E l, s \in ReqIds :
        /\ SameSession(l, s)
        /\ req[l].pc = "done" /\ req[l].revoke_result = "ok"
        /\ req[s].pc = "done" /\ req[s].resp = "Unauthorized"
        /\ req[s].consumed = "false"
        /\ \E i \in RowsOf(req[s].token_hash) :
              refresh_tokens[i].revoked /\ refresh_tokens[i].expires_at > now
        /\ \A u \in Users : users[u].hashed_password = hash_password("p1", 0)

\* C2 (as amended): when a log-out and a set-password on the same session
\* overlap, at most one of them moves the session from active to revoked, and
\* log-out answers success either way. If the log-out's revoke changes the
\* session, the set-password holds no consume of it, open or committed. If the
\* set-password commits, the session was still active up to that commit. If
\* the set-password's consume runs on a session that is already revoked, it
\* returns false and the request is answered Unauthorized.
C2_LogOutRacesSetPassword ==
    [][\A l, s \in ReqIds :
          SameSession(l, s) =>
            /\ (req[l].pc = "lo_revoke" /\ req'[l].pc = "done")
                  => /\ req'[l].resp = "OK"
                     /\ (\E i \in RowsOf(req[l].token_hash) :
                            ~refresh_tokens[i].revoked /\ refresh_tokens'[i].revoked)
                          => /\ ~(req[s].tx_open /\ req[s].consumed = "true")
                             /\ ~req[s].committed
                             /\ ~(req[s].pc = "done" /\ req[s].resp = "OK")
            /\ (req[s].pc = "sp_commit" /\ req'[s].pc = "sp_insert")
                  => \A i \in RowsOf(req[s].token_hash) :
                        ~refresh_tokens[i].revoked /\ refresh_tokens'[i].revoked
            /\ ( /\ req[s].pc = "sp_consume" /\ req'[s].consumed # "unset"
                 /\ \A i \in RowsOf(req[s].token_hash) : refresh_tokens[i].revoked )
                  => /\ req'[s].consumed = "false"
                     /\ req'[s].resp = "Unauthorized"]_vars

\* A set-password has committed its consume of a session and is still in
\* flight when a log-out of the same session has been answered.
C2_Witness ==
    \E l, s \in ReqIds :
        /\ SameSession(l, s)
        /\ req[s].pc = "sp_insert" /\ req[s].consumed = "true"
        /\ req[l].pc = "done" /\ req[l].resp = "OK" /\ req[l].revoke_result = "ok"

\* C2 as stated: whichever of the two does not consume the session observes
\* Unauthorized; so a log-out answered after the set-password consumed the
\* session is answered Unauthorized.
C2_OtherObservesUnauthorized ==
    [][\A l, s \in ReqIds :
          ( /\ SameSession(l, s)
            /\ req[s].consumed = "true" /\ req[s].pc = "sp_insert"
            /\ req[l].pc = "lo_revoke" /\ req'[l].pc = "done" )
          => req'[l].resp = "Unauthorized"]_vars

\* C3 (as amended): the check and the revocation of consume are one step, and
\* per record at most one consume that returned true is ever committed. A
\* consume returns true only on a record that is active and that no other open
\* transaction has consumed; no two open transactions hold a consume of the
\* same record; and a transaction that commits its consume moves the record
\* from active to revoked at that commit.
C3_AtMostOneCommittedConsume ==
    [][/\ \A a, b \in ReqIds :
             ( /\ a # b
               /\ req[a].tx_open /\ req[a].consumed = "true"
               /\ req[b].tx_open /\ req[b].consumed = "true" )
             => req[a].token_hash # req[b].token_hash
       /\ \A s \in ReqIds :
             /\ (req[s].pc = "sp_consume" /\ req'[s].consumed = "true")
                   => /\ RowsOf(req[s].token_hash) # {}
                      /\ \A i \in RowsOf(req[s].token_hash) :
                            /\ Active(i)
                            /\ refresh_tokens[i].user_id = req[s].user_id
                            /\ \A q \in ReqIds \ {s} :
                                  ~(req[q].tx_open /\ i \in req[q].tx_rt)
             /\ (req[s].pc = "sp_commit" /\ req'[s].pc = "sp_insert")
                   => \A i \in RowsOf(req[s].token_hash) :
                         ~refresh_tokens[i].revoked /\ refresh_tokens'[i].revoked]_vars

\* Two set-passwords presented the same session; the consume of one returned
\* false and the other went on to succeed.
C3_Witness ==
    \E a, b \in ReqIds :
        /\ a # b
        /\ req[a].kind = "set_password" /\ req[b].kind = "set_password"
        /\ req[a].token_hash = req[b].token_hash
        /\ req[a].pc = "done" /\ req[a].consumed = "true" /\ req[a].resp = "OK"
        /\ req[b].pc = "done" /\ req[b].consumed = "false"

\* C3 as stated: over all consume calls on one record at most one returns
\* true.
C3_AtMostOneReturnsTrue ==
    \A a, b \in ReqIds :
        ( /\ a # b
          /\ req[a].kind = "set_password" /\ req[b].kind = "set_password"
          /\ req[a].consumed = "true" /\ req[b].consumed = "true" )
        => req[a].token_hash # req[b].token_hash

\* The token hashes a request can present.
Hashes == {Sha256Hex(j) : j \in 0..MaxAccepted}

\* C4: consume returns false (matches no row) and changes no record whenever
\* no record has the hash, the record belongs to another user, is already
\* revoked, or its expires_at is not after now; and a set-password whose
\* consume returned false was answered Unauthorized, whichever case it was.
C4_ConsumeFalseIsUnauthorized ==
    /\ \A u \in Users, h \in Hashes :
          (\A i \in RowsOf(h) :
              \/ refresh_tokens[i].user_id # u
              \/ refresh_tokens[i].revoked
              \/ refresh_tokens[i].expires_at <= now)
          => /\ ConsumeTargets(u, h, now) = {}
             /\ MarkRevoked(refresh_tokens, ConsumeTargets(u, h, now)) = refresh_tokens
    /\ \A s \in ReqIds :
          (req[s].kind = "set_password" /\ req[s].consumed = "false")
          => req[s].pc = "done" /\ req[s].resp = "Unauthorized"

\* A set-password presented a session that is not revoked but has expired,
\* and was answered Unauthorized; the record is as it was.
C4_Witness ==
    \E s \in ReqIds :
        /\ req[s].kind = "set_password" /\ req[s].pc = "done"
        /\ req[s].consumed = "false" /\ req[s].resp = "Unauthorized"
        /\ \E i \in RowsOf(req[s].token_hash) :
              /\ ~refresh_tokens[i].revoked
              /\ refresh_tokens[i].expires_at <= now
              /\ refresh_tokens[i].user_id = req[s].user_id

InstantsFrom(t0) == t0..(t0 + AccessTtl + RefreshTtl + Leeway + 1)

\* A set-password presenting access cookie a and refresh cookie c at instant
\* t whose access token is not valid, or whose refresh cookie is missing, does
\* not decode or has another subject, is answered at once with Unauthorized
\* or a token error, before any store call.
SetPasswordRejectsAtOnce(a, c, t) ==
    \A p \in NewPasswords :
        LET rec == SetPasswordArrival(a, c, p, TRUE, t)
        IN  ( \/ AuthenticatedUser(a, t) # "ok"
              \/ c.token_type = "none"
              \/ decode_refresh_token(c, t) # "ok"
              \/ c.sub # a.sub )
            => /\ rec.pc = "done"
               /\ rec.resp \in {"Unauthorized", "TokenInvalid", "TokenExpired"}

\* The table-changing steps of request r: the commit and the insert of the
\* new session.
ChangesState(r) ==
    /\ req'[r] # req[r]
    /\ \/ users' # users
       \/ refresh_tokens' # refresh_tokens
       \/ issued' # issued

\* C6: set-password changes state only for a request with a valid access
\* token and a refresh token that decodes, has the access token's subject and
\* names an active session of that user. A request that fails one of the
\* first checks is rejected at once: this holds of every pair of cookies a
\* client can present, at every instant it can present them (stated for the
\* cookies there are at the start and, at each step that issues cookies, for
\* every pair that has a new one in it). A request whose session is not
\* active is answered Unauthorized by the consume step with the tables as
\* they were; and every step of a set-password that changes a table belongs
\* to a request whose consume found an active session of its user.
C6_SetPasswordNeedsActiveSession ==
    [][/\ (issued = {} /\ now = 0)
             => \A a, c \in Cookies, t \in InstantsFrom(now) :
                   SetPasswordRejectsAtOnce(a, c, t)
       /\ \A n \in issued' \ issued, o \in issued' \cup {NoCookie, Forged},
             t \in InstantsFrom(now) :
                SetPasswordRejectsAtOnce(n, o, t) /\ SetPasswordRejectsAtOnce(o, n, t)
       /\ \A s \in ReqIds :
             req[s].kind = "set_password" =>
               /\ (req[s].pc = "sp_consume" /\ req'[s].consumed = "false")
                     => /\ ConsumeTargets(req[s].user_id, req[s].token_hash, now) = {}
                        /\ req'[s].pc = "done" /\ req'[s].resp = "Unauthorized"
                        /\ users' = users /\ refresh_tokens' = refresh_tokens
                        /\ issued' = issued
               /\ (req[s].pc = "sp_consume" /\ req'[s].consumed = "true")
                     => \E i \in RowsOf(req[s].token_hash) :
                           Active(i) /\ refresh_tokens[i].user_id = req[s].user_id
               /\ (InFlight(s) /\ ChangesState(s))
                     => req[s].consumed = "true"]_vars

\* Two users hold sessions, and a set-password with one user's access token
\* and the other's refresh token is answered Unauthorized at once.
C6_Witness ==
    \E a, c \in Cookies :
        /\ AuthenticatedUser(a, now) = "ok"
        /\ decode_refresh_token(c, now) = "ok"
        /\ c.sub # a.sub
        /\ \E i \in RowsOf(Sha256Hex(c.jti)) : Active(i)
        /\ SetPasswordArrival(a, c, "p2", TRUE, now).pc = "done"
        /\ SetPasswordArrival(a, c, "p2", TRUE, now).resp = "Unauthorized"

\* C7: consume, password update and revoke-all of a set-password take effect
\* together or not at all. A request that has consumed its session and then
\* fails (the account is gone, hashing fails, or a store call fails, the
\* commit included) leaves both tables as they were: the presented session
\* is still active, the password hash unchanged, no other session revoked.
\* Until the commit none of its writes is in the tables.
C7_SetPasswordAllOrNothing ==
    [][\A s \in ReqIds :
          (req[s].kind = "set_password" /\ req[s].tx_open) =>
            /\ ( /\ req'[s].pc = "done"
                 /\ req'[s].consumed = "true" )
                  => /\ req'[s].resp # "OK"
                     /\ users' = users
                     /\ refresh_tokens' = refresh_tokens
                     /\ \A i \in RowsOf(req[s].token_hash) :
                           ~refresh_tokens'[i].revoked
            /\ (req'[s].pc \notin {"done", "sp_insert"})
                  => (req'[s] # req[s] => users' = users /\ refresh_tokens' = refresh_tokens)
            /\ (req[s].pc = "sp_commit" /\ req'[s].pc = "sp_insert")
                  => /\ users'[req[s].user_id].hashed_password = req[s].tx_pw
                     /\ \A i \in req[s].tx_rt : refresh_tokens'[i].revoked]_vars

\* A set-password consumed its session and then failed: the session is still
\* active and the password is the old one.
C7_Witness ==
    \E s \in ReqIds :
        /\ req[s].kind = "set_password" /\ req[s].pc = "done"
        /\ req[s].consumed = "true" /\ req[s].resp = "InternalError"
        /\ \E i \in RowsOf(req[s].token_hash) : Active(i)
        /\ users[req[s].user_id].hashed_password = hash_password("p1", 0)

\* The sessions of user u that are active in the tables after the step.
ActiveAfter(u) ==
    {i \in 1..Len(refresh_tokens') :
        /\ refresh_tokens'[i].user_id = u
        /\ ~refresh_tokens'[i].revoked
        /\ refresh_tokens'[i].expires_at > now'}

\* C8: when a set-password that met no other request of its user succeeds,
\* the stored hash verifies the new password (and is the hash this request
\* computed), every session the user had is revoked, and the user has exactly
\* one active session: the record the request has just inserted.
C8_SetPasswordLeavesOneSession ==
    [][\A s \in ReqIds :
          ( /\ req[s].kind = "set_password"
            /\ req[s].pc = "sp_insert"
            /\ ~req[s].overlap
            /\ req'[s].pc = "done" /\ req'[s].resp = "OK" )
          => LET u == req[s].user_id
             IN  /\ verify_password(req[s].password, users'[u].hashed_password)
                 /\ users'[u].hashed_password = req[s].tx_pw
                 /\ \A i \in RevokeAllTargets(u) : refresh_tokens'[i].revoked
                 /\ \A i \in RowsOf(req[s].token_hash) : refresh_tokens'[i].revoked
                 /\ Len(refresh_tokens') = Len(refresh_tokens) + 1
                 /\ ActiveAfter(u) = {Len(refresh_tokens')}]_vars

\* A user with two sessions changed the password alone: both sessions are
\* revoked, the last record is the one active session and the stored hash is
\* the new password's.
C8_Witness ==
    \E s \in ReqIds :
        /\ req[s].kind = "set_password" /\ req[s].pc = "done"
        /\ req[s].resp = "OK" /\ ~req[s].overlap
        /\ Cardinality({i \in Rows : refresh_tokens[i].user_id = req[s].user_id
                                     /\ refresh_tokens[i].revoked}) = 2
        /\ {i \in Rows : refresh_tokens[i].user_id = req[s].user_id /\ Active(i)}
              = {Len(refresh_tokens)}
        /\ verify_password("p2", users[req[s].user_id].hashed_password)

\* C9: set-password inserts the new session record only after its
\* transaction has committed. A step of a set-password that adds a record or
\* hands out cookies is taken by a request that has committed and holds no
\* open transaction; the record it adds is not among those its revoke-all
\* marked and is not revoked; and a set-password that ends without having
\* committed has issued nothing.
C9_SessionIssuedAfterCommit ==
    [][\A s \in ReqIds :
          (req[s].kind = "set_password" /\ req'[s] # req[s]) =>
            /\ (Len(refresh_tokens') > Len(refresh_tokens) \/ issued' # issued)
                  => /\ req[s].pc = "sp_insert"
                     /\ req[s].committed /\ ~req[s].tx_open
                     /\ \A i \in req[s].tx_rt : refresh_tokens[i].revoked
                     /\ Len(refresh_tokens') \notin req[s].tx_rt
                     /\ ~refresh_tokens'[Len(refresh_tokens')].revoked
                     /\ refresh_tokens'[Len(refresh_tokens')].user_id = req[s].user_id
            /\ (InFlight(s) /\ ~req[s].committed /\ req'[s].pc = "done")
                  => /\ Len(refresh_tokens') = Len(refresh_tokens)
                     /\ issued' = issued]_vars

\* A set-password succeeded: the session it presented is revoked and a later
\* record of the same user is not.
C9_Witness ==
    \E s \in ReqIds :
        /\ req[s].kind = "set_password" /\ req[s].pc = "done" /\ req[s].resp = "OK"
        /\ \E i \in RowsOf(req[s].token_hash) :
              /\ refresh_tokens[i].revoked
              /\ i < Len(refresh_tokens)
        /\ ~refresh_tokens[Len(refresh_tokens)].revoked
        /\ refresh_tokens[Len(refresh_tokens)].user_id = req[s].user_id

\* C10 (as amended): log-out always answers success: at once when there is no
\* refresh cookie or the cookie does not decode as a refresh token, and after
\* the revoke otherwise, whether the revoke matched a record or not and
\* whether the store call succeeded or failed. When the token decodes and the
\* revoke call succeeds, every record under the token's hash is revoked.
C10_LogOutAlwaysSucceeds ==
    /\ \A c \in Cookies :
          LET rec == LogOutArrival(c, now)
          IN  /\ rec.pc = "done" => rec.resp = "OK"
              /\ (c.token_type = "none" \/ decode_refresh_token(c, now) # "ok")
                    => rec.pc = "done"
    /\ \A l \in ReqIds :
          (req[l].kind = "log_out" /\ req[l].pc = "done")
          => /\ req[l].resp = "OK"
             /\ req[l].revoke_result = "ok"
                   => \A i \in RowsOf(req[l].token_hash) : refresh_tokens[i].revoked

\* A log-out whose revoke call failed was answered success.
C10_Witness ==
    \E l \in ReqIds :
        /\ req[l].kind = "log_out" /\ req[l].pc = "done"
        /\ req[l].resp = "OK" /\ req[l].revoke_result = "err"
        /\ RowsOf(req[l].token_hash) # {}

\* C10 as stated: whenever the presented token decoded and its record exists,
\* the record is revoked once the log-out has been answered.
C10_RecordRevokedAfterLogOut ==
    \A l \in ReqIds :
        (req[l].kind = "log_out" /\ req[l].pc = "done" /\ req[l].token_hash # NoHash)
        => \A i \in RowsOf(req[l].token_hash) : refresh_tokens[i].revoked

\* ------------------------------------------------------------ log-in
\* What log-in answers to email e and password p in the current state.
LogInOrder(e, p) ==
    LET found == FindUserByEmail(e)
        rec == LogInArrival(e, p, TRUE)
    IN  /\ found = {} => (rec.pc = "done" /\ rec.resp = "InvalidCredentials")
        /\ \A u \in found :
              LET match == verify_password(p, users[u].hashed_password)
              IN  /\ ~match => (rec.pc = "done" /\ rec.resp = "InvalidCredentials")
                  /\ (match /\ ~users[u].email_confirmed)
                        => (rec.pc = "done" /\ rec.resp = "EmailNotConfirmed")
                  /\ (match /\ users[u].email_confirmed) => rec.pc = "li_insert"

\* C11: log-in answers InvalidCredentials when no user has the email,
\* InvalidCredentials when the password does not match (confirmed or not),
\* EmailNotConfirmed when the password matches and the email is not confirmed,
\* and goes on only when all three checks pass; a log-in that fails a check is
\* answered at once and leaves no request behind, so no step of a log-in adds
\* a record or issues tokens unless its user exists, its password matches and
\* the email is confirmed.
C11_LogInCheckOrder ==
    [][/\ \A e \in Emails, p \in Passwords : LogInOrder(e, p) /\ LogInOrder(e, p)'
       /\ \A r \in ReqIds :
             (req'[r].kind = "log_in" /\ req'[r] # req[r])
             => LET u == req'[r].user_id
                IN  /\ u \in Users /\ users[u].exists /\ users[u].email_confirmed
                    /\ req[r].pc = "li_insert"
                          => verify_password(req[r].password, users[u].hashed_password)
                    /\ (refresh_tokens' # refresh_tokens \/ issued' # issued)
                          => (req[r].pc = "li_insert" /\ req'[r].resp = "OK")]_vars

\* One user has logged in while another, not yet confirmed, would be answered
\* InvalidCredentials with a wrong password and EmailNotConfirmed with the
\* right one.
C11_Witness ==
    /\ \E r \in ReqIds : req[r].kind = "log_in" /\ req[r].pc = "done" /\ req[r].resp = "OK"
    /\ \E u \in Users :
          /\ ~users[u].email_confirmed
          /\ LogInArrival(EmailOf(u), "p2", TRUE).resp = "InvalidCredentials"
          /\ LogInArrival(EmailOf(u), "p1", TRUE).resp = "EmailNotConfirmed"

\* Request r is a log-in answered success in this step.
LogInSucceeds(r) ==
    /\ req[r].kind = "log_in" /\ req[r].pc = "li_insert"
    /\ req'[r].pc = "done" /\ req'[r].resp = "OK"

\* Rows of refresh_tokens owned by user u.
RowsOfUser(u) == {i \in Rows : refresh_tokens[i].user_id = u}

\* C12: a successful log-in appends exactly one refresh_tokens row, active and
\* owned by the user, whose token_hash is the hash of the jti of the one
\* refresh token the response carries, and leaves every existing row as it
\* was; when the user had no row before, the user has exactly one active row
\* afterwards.
C12_LogInInsertsOneActiveRecord ==
    [][\A r \in ReqIds :
          LogInSucceeds(r)
          => LET u == req[r].user_id
                 n == Len(refresh_tokens)
                 new == refresh_tokens'[n + 1]
                 handed == {c \in issued' \ issued : c.token_type = "refresh"}
             IN  /\ Len(refresh_tokens') = n + 1
                 /\ \A i \in 1..n : refresh_tokens'[i] = refresh_tokens[i]
                 /\ new.user_id = u /\ ~new.revoked /\ new.expires_at > now'
                 /\ Cardinality(handed) = 1
                 /\ \A c \in handed : c.sub = u /\ new.token_hash = Sha256Hex(c.jti)
                 /\ users[u].email_confirmed
                 /\ RowsOfUser(u) = {} => ActiveAfter(u) = {n + 1}]_vars

\* A log-in has succeeded for a user who holds no other session.
C12_Witness ==
    \E r \in ReqIds :
        /\ req[r].kind = "log_in" /\ req[r].pc = "done" /\ req[r].resp = "OK"
        /\ Cardinality(RowsOfUser(req[r].user_id)) = 1
        /\ \A i \in RowsOfUser(req[r].user_id) : Active(i)

\* No log-in has succeeded before request r's: every row of refresh_tokens is
\* accounted for by a verify-forgot-password answered success and still on
\* record.
FirstLogIn(r) ==
    Len(refresh_tokens) =
        Cardinality({q \in ReqIds \ {r} : /\ req[q].kind = "verify_forgot_password"
                                          /\ req[q].pc = "done"
                                          /\ req[q].resp = "OK"})

\* C12 as stated: the first successful log-in of a confirmed user leaves that
\* user with exactly one active record.
C12_FirstLogInLeavesOneActive ==
    [][\A r \in ReqIds :
          (LogInSucceeds(r) /\ FirstLogIn(r))
          => Cardinality(ActiveAfter(req[r].user_id)) = 1]_vars

\* -------------------------------------------------------- confirm-email
\* Rows of auth_codes holding the email-confirmation codes of user u.
ConfirmationCodes(u) ==
    {i \in CodeRows : auth_codes[i].user_id = u
                      /\ auth_codes[i].code_type = "email_confirmation"}

\* C13: in every reachable state, also after a confirm-email request failed
\* part-way and with confirm-email requests running side by side, a user's
\* confirmation code is marked used exactly when the user is confirmed: never
\* used with the user unconfirmed, never unused with the user confirmed.
C13_CodeUsedIffUserConfirmed ==
    \A u \in Users :
        \A i \in ConfirmationCodes(u) : auth_codes[i].used <=> users[u].email_confirmed

\* One confirm-email has failed after it verified the code and another,
\* started beside it, has confirmed the user.
C13_Witness ==
    \E f \in ReqIds, s \in ReqIds :
        /\ req[f].kind = "confirm_email" /\ req[f].pc = "done"
        /\ req[f].resp = "InternalError" /\ req[f].code_id # 0
        /\ req[s].kind = "confirm_email" /\ req[s].pc = "done"
        /\ req[s].resp = "OK" /\ req[s].message = ConfirmedNow
        /\ req[s].user_id = req[f].user_id
        /\ users[req[s].user_id].email_confirmed
        /\ auth_codes[req[s].code_id].used

\* Request s is a confirm-email that confirmed its user.
ConfirmedBy(s) ==
    /\ req[s].kind = "confirm_email" /\ req[s].pc = "done"
    /\ req[s].resp = "OK" /\ req[s].message = ConfirmedNow

\* The code stored in row i of auth_codes.
CodeOfRow(i) == auth_codes[i].code_hash[2]

\* C14: after a successful confirm-email with code c for a user, no valid
\* email-confirmation row of the user remains, and a second confirm-email
\* with the same email and the same code c is answered success, "Email
\* already confirmed.", at once: it never gets as far as looking for a code.
C14_SecondConfirmEmailIsSuccess ==
    \A s \in ReqIds :
        ConfirmedBy(s)
        => LET u == req[s].user_id
               again == ConfirmEmailArrival(EmailOf(u), CodeOfRow(req[s].code_id), TRUE)
           IN  /\ ValidCodes(u, "email_confirmation", now) = {}
               /\ again.pc = "done" /\ again.resp = "OK"
               /\ again.message = AlreadyConfirmed

\* A confirm-email has confirmed its user with the user's sign-up code.
C14_Witness ==
    \E s \in ReqIds :
        /\ ConfirmedBy(s)
        /\ CodeOfRow(req[s].code_id) = SignUpCode(req[s].user_id)
        /\ users[req[s].user_id].email_confirmed

\* C14 as stated: the second confirm-email with the same email and code fails
\* with AuthCodeExpired.
C14_SecondConfirmEmailFails ==
    \A s \in ReqIds :
        ConfirmedBy(s)
        => ConfirmEmailArrival(EmailOf(req[s].user_id),
                               CodeOfRow(req[s].code_id), TRUE).resp = "AuthCodeExpired"

\* C15: confirm-email for a user whose email is already confirmed is answered
\* success at once whatever code it carries (a valid one, a guess, a used one,
\* an expired one, none): it occupies no request slot, so it reaches no store
\* call after the user lookup, and every confirm-email that does go on to the
\* code lookup and the writes is for a user who was not confirmed when it
\* arrived.
C15_ConfirmedUserConfirmEmailIsNoOp ==
    [][/\ \A u \in Users, c \in AllCodes \cup {NoCode} :
             users[u].email_confirmed
             => LET rec == ConfirmEmailArrival(EmailOf(u), c, TRUE)
                IN  /\ rec.pc = "done" /\ rec.resp = "OK"
                    /\ rec.message = AlreadyConfirmed
                    /\ \A r \in ReqIds : Arrive(r, rec) = req
       /\ \A r \in ReqIds :
             (Free(r) /\ req'[r].kind = "confirm_email" /\ req'[r] # req[r])
             => (~users[req'[r].user_id].email_confirmed /\ users' = users
                 /\ auth_codes' = auth_codes)]_vars

\* A user confirmed by a confirm-email holds a used confirmation code that has
\* since expired; confirm-email for that user with a guess is answered
\* success.
C15_Witness ==
    \E u \in Users, s \in ReqIds :
        /\ ConfirmedBy(s) /\ req[s].user_id = u
        /\ users[u].email_confirmed
        /\ \E i \in ConfirmationCodes(u) :
              auth_codes[i].used /\ auth_codes[i].expires_at <= now
        /\ ConfirmEmailArrival(EmailOf(u), WrongCode, TRUE).message = AlreadyConfirmed

\* ------------------------------------------------------- reset codes
\* Requests on record as verify-forgot-password answered success on row i of
\* auth_codes.
VerifiedWith(i) ==
    {r \in ReqIds : /\ req[r].kind = "verify_forgot_password"
                    /\ req[r].pc = "done" /\ req[r].resp = "OK"
                    /\ req[r].code_id = i}

\* C16: a password-reset code is a one-time credential: for each code record
\* at most one verify-forgot-password request is answered success (token pair
\* and session), also when two requests present the same correct code side by
\* side.
C16_AtMostOneVerifyPerCode ==
    \A i \in CodeRows :
        auth_codes[i].code_type = "password_reset" => Cardinality(VerifiedWith(i)) <= 1

\* Unused password-reset rows of user u.
UnusedResetCodes(u) == InvalidateTargets(u)

\* C17: after any sequence or interleaving of forgot-password requests for
\* one user, at most one unused password-reset code exists for that user.
C17_AtMostOneUnusedResetCode ==
    \A u \in Users : Cardinality(UnusedResetCodes(u)) <= 1

\* ---------------------------------------------------- forgot-password
\* Emails no user row has.
UnknownEmails == {e \in Emails : FindUserByEmail(e) = {}}

\* C18: forgot-password answers with the same status and the same message
\* for an email with no account, for an account whose reset email was
\* delivered and for an account whose reset email could not be delivered.
C18_ForgotPasswordSameResponse ==
    /\ \A e \in UnknownEmails :
          LET rec == ForgotPasswordArrival(e, TRUE)
          IN  rec.pc = "done" /\ rec.resp = "OK" /\ rec.message = ResetSent
    /\ \A r \in ReqIds :
          (req[r].kind = "forgot_password" /\ req[r].pc = "done"
           /\ req[r].sent \in {"ok", "err"})
          => (req[r].resp = "OK" /\ req[r].message = ResetSent)

\* One forgot-password whose email was delivered and one whose delivery
\* failed have both been answered, while some email has no account.
C18_Witness ==
    /\ UnknownEmails # {}
    /\ \E a \in ReqIds, b \in ReqIds :
          /\ req[a].kind = "forgot_password" /\ req[a].pc = "done" /\ req[a].sent = "ok"
          /\ req[b].kind = "forgot_password" /\ req[b].pc = "done" /\ req[b].sent = "err"
          /\ req[a].resp = req[b].resp /\ req[a].message = req[b].message

\* C19: forgot-password for an email with no account is answered at once and
\* occupies no request slot, so it makes no email call and no store write:
\* every forgot-password that goes on belongs to an existing user, and every
\* email call is the one call of such a request.
C19_UnknownEmailIsNoOp ==
    [][/\ \A e \in UnknownEmails :
             LET rec == ForgotPasswordArrival(e, TRUE)
             IN  rec.pc = "done" /\ \A r \in ReqIds : Arrive(r, rec) = req
       /\ \A r \in ReqIds :
             (req'[r].kind = "forgot_password" /\ req'[r] # req[r])
             => (req'[r].user_id \in Users /\ users[req'[r].user_id].exists)
       /\ email_calls' # email_calls
             => \E r \in ReqIds :
                   /\ req[r].kind = "forgot_password" /\ req[r].pc = "fp_send"
                   /\ req[r].email \notin UnknownEmails
                   /\ email_calls' = email_calls + 1]_vars

\* An email call has been made for an existing account while forgot-password
\* for an email with no account is answered success without a request.
C19_Witness ==
    /\ email_calls >= 1
    /\ \E e \in UnknownEmails :
          /\ ForgotPasswordArrival(e, TRUE).resp = "OK"
          /\ \A r \in ReqIds : req[r].email # e

\* --------------------------------------------------- rejected codes
\* The code type request r's handler looks up.
CodeTypeOf(r) ==
    IF req[r].kind = "confirm_email" THEN "email_confirmation" ELSE "password_reset"

\* C20: a confirm-email of a user who was not confirmed when it arrived, and a
\* verify-forgot-password, are answered by their code lookup with
\* AuthCodeExpired exactly when the user has no unused, unexpired code of the
\* handler's type, and with InvalidAuthCode exactly when there is one and the
\* presented code is not that of the newest; either answer leaves users,
\* auth_codes and refresh_tokens as they were and issues no token.
C20_RejectedCodeChangesNothing ==
    [][\A r \in ReqIds :
          (req[r].pc \in {"ce_find_code", "vf_find_code"} /\ req'[r] # req[r]
           /\ req'[r].resp # "InternalError")
          => LET valid == ValidCodes(req[r].user_id, CodeTypeOf(r), now)
                 newest == find_valid_auth_code(req[r].user_id, CodeTypeOf(r), now)
                 match == valid # {} /\ verify_code(req[r].auth_code,
                                                    auth_codes[newest].code_hash)
             IN  /\ valid = {} <=> req'[r].resp = "AuthCodeExpired"
                 /\ (valid # {} /\ ~match) <=> req'[r].resp = "InvalidAuthCode"
                 /\ match <=> req'[r].pc \in {"ce_mark", "vf_mark"}
                 /\ req'[r].resp \in {"AuthCodeExpired", "InvalidAuthCode"}
                       => /\ req'[r].pc = "done"
                          /\ UNCHANGED <<users, auth_codes, refresh_tokens, issued>>]_vars

\* A confirm-email with a wrong guess has been answered InvalidAuthCode and a
\* verify-forgot-password AuthCodeExpired; the guessed-at confirmation code is
\* still valid and its user still unconfirmed.
C20_Witness ==
    \E a \in ReqIds, b \in ReqIds :
        /\ req[a].kind = "confirm_email" /\ req[a].pc = "done"
        /\ req[a].resp = "InvalidAuthCode"
        /\ req[b].kind = "verify_forgot_password" /\ req[b].pc = "done"
        /\ req[b].resp = "AuthCodeExpired"
        /\ ~users[req[a].user_id].email_confirmed
        /\ ValidCodes(req[a].user_id, "email_confirmation", now) # {}
        /\ refresh_tokens = <<>>

\* C20 as stated, for confirm-email: whenever the user has no valid
\* email-confirmation code, confirm-email is answered AuthCodeExpired, at once
\* or by its code lookup.
C20_NoValidCodeIsAuthCodeExpired ==
    \A u \in Users :
        ValidCodes(u, "email_confirmation", now) = {}
        => LET rec == ConfirmEmailArrival(EmailOf(u), WrongCode, TRUE)
           IN  \/ rec.pc = "ce_find_code"
               \/ rec.resp = "AuthCodeExpired"

\* ------------------------------------------------------------- sign-up
\* Request r is a sign-up answered 201 in this step.
SignUpSucceeds(r) ==
    /\ req[r].kind = "sign_up" /\ req[r].pc = "su_send"
    /\ req'[r].pc = "done" /\ req'[r].resp = "Created"

\* C21: when a sign-up succeeds, the request has inserted one users row (each
\* of its steps adds at most one, and only its insert step adds any), that row
\* carries the email asked for and is unconfirmed; the user has exactly one email-confirmation code row, unused, whose hash is
\* that of the code handed to the email sender; the sender is called once, in
\* the step that answers the request; the code is six decimal digits; no
\* refresh_tokens row exists for the user and no step of a sign-up adds a
\* row to refresh_tokens or issues a token.
C21_SignUpCreatesUserAndCode ==
    [][/\ \A r \in ReqIds :
             SignUpSucceeds(r)
             => LET u == req[r].user_id
                IN  /\ u \in FindUserByEmail(req[r].email)
                    /\ users'[u].exists /\ ~users'[u].email_confirmed
                    /\ ConfirmationCodes(u) = {req[r].code_id}
                    /\ ~auth_codes'[req[r].code_id].used
                    /\ auth_codes'[req[r].code_id].code_hash = hash_code(req[r].auth_code)
                    /\ req[r].sent = "unset" /\ req'[r].sent = "ok"
                    /\ email_calls' = email_calls + 1
                    /\ RowsOfUser(u) = {}
       /\ \A r \in ReqIds :
             (req'[r].kind = "sign_up" /\ req'[r] # req[r])
             => /\ refresh_tokens' = refresh_tokens /\ issued' = issued
                /\ users' # users
                      => /\ req[r].pc = "su_create_user"
                         /\ Cardinality({x \in Users : users'[x] # users[x]}) = 1
                         /\ ~users[req'[r].user_id].exists
       /\ \A n \in CodeSamples :
             /\ Len(to_string(n)) = 6
             /\ \A i \in 1..6 : to_string(n)[i] \in 0..9]_vars

\* A sign-up has been answered 201: its user is unconfirmed and holds one
\* unused confirmation code.
C21_Witness ==
    \E r \in ReqIds :
        /\ req[r].kind = "sign_up" /\ req[r].pc = "done" /\ req[r].resp = "Created"
        /\ ~users[req[r].user_id].email_confirmed
        /\ ConfirmationCodes(req[r].user_id) = {req[r].code_id}
        /\ ~auth_codes[req[r].code_id].used
        /\ email_calls = 1
        /\ refresh_tokens = <<>>

C23_TokenKindsNotConfused ==
    \A c \in issued :
        /\ (c.token_type = "refresh" /\ now <= c.exp)
           => /\ decode_access_token(c, now) = "TokenInvalid"
              /\ AuthenticatedUser(c, now) = "TokenInvalid"
        /\ (c.token_type = "access" /\ now <= c.exp)
           => /\ decode_refresh_token(c, now) = "TokenInvalid"
              /\ LogOutArrival(c, now).pc = "done"
              /\ LogOutArrival(c, now).token_hash = NoHash
              /\ \A a \in Cookies, p \in NewPasswords :
                    LET rec == SetPasswordArrival(a, c, p, TRUE, now)
                    IN  /\ rec.pc = "done"
                        /\ rec.resp \in {"Unauthorized", "TokenInvalid", "TokenExpired"}
                        /\ AuthenticatedUser(a, now) = "ok" => rec.resp = "TokenInvalid"

\* A log-in has issued an access and a refresh token, neither has expired, the
\* access token passes as an access credential and the refresh token as a
\* refresh credential, and each is refused in the other role.
C23_Witness ==
    \E a \in issued, c \in issued :
        /\ a.token_type = "access" /\ now <= a.exp
        /\ c.token_type = "refresh" /\ now <= c.exp
        /\ decode_access_token(a, now) = "ok"
        /\ decode_refresh_token(c, now) = "ok"
        /\ decode_access_token(c, now) = "TokenInvalid"
        /\ SetPasswordArrival(a, a, "p2", TRUE, now).resp = "TokenInvalid"

\* The caller's last decoding was of a token of the kind asked for, under the
\* secret it was signed with.
DecodedOwnKind ==
    /\ req[Caller].kind \in {"access", "refresh"}
    /\ req[Caller].token.claims.token_type = req[Caller].kind
    /\ req[Caller].token.mac = Mac(req[Caller].token.claims, req[Caller].secret)

\* C24: a token issued with a lifetime of zero fails verification with
\* TokenExpired, a token verified after the clock has passed its exp fails
\* with TokenExpired, and a token is accepted only while the clock has not
\* passed its exp.
C24_ExpiredTokenFails ==
    /\ \A u \in Users, e \in TokenEmails, s \in Secrets :
          /\ decode("access", encode(create_access_token(u, e, now, 0), s), s, now)
                = "TokenExpired"
          /\ decode("refresh", encode(create_refresh_token(u, 1, now, 0), s), s, now)
                = "TokenExpired"
    /\ DecodedOwnKind
       => /\ req[Caller].at > req[Caller].token.claims.exp
                => req[Caller].resp = "TokenExpired"
          /\ req[Caller].resp = "ok"
                => req[Caller].at <= req[Caller].token.claims.exp

C26_VerifyCodeComparesAllBytes ==
    /\ \A c \in CodeSamples, d \in CodeSamples :
          verify_code_hex(to_string(d), hash_code_hex(to_string(c))) = (c = d)
    /\ \A a \in CompareInputs, b \in CompareInputs :
          constant_time_compare(a, b) = (a = b)
    /\ (req[Caller].kind = "compare" /\ req[Caller].pc = "done")
       => /\ req[Caller].ret = (req[Caller].a = req[Caller].b)
          /\ req[Caller].ret = constant_time_compare(req[Caller].a, req[Caller].b)
          /\ IF Len(req[Caller].a) # Len(req[Caller].b)
             THEN req[Caller].i = 0 /\ ~req[Caller].ret
             ELSE req[Caller].i = Len(req[Caller].a)

\* A comparison of two digests whose first bytes differ has returned false
\* after the sixth pair.
C26_Witness ==
    /\ req[Caller].kind = "compare" /\ req[Caller].pc = "done"
    /\ Len(req[Caller].a) = 6 /\ Len(req[Caller].b) = 6
    /\ req[Caller].a[1] # req[Caller].b[1]
    /\ req[Caller].i = 6
    /\ ~req[Caller].ret

\* The users whose stored hash Argon2 cannot verify against.
ForeignHashUsers ==
    {u \in Users : users[u].exists
                   /\ users[u].hashed_password \in {MalformedHash, UnsupportedHash}}

\* C27: verifying any password against a stored hash that is malformed or of
\* an unsupported algorithm yields InternalError, never false, and a log-in
\* for a user with such a hash is answered InternalError at once, so it
\* creates no session.
C27_BadHashIsInternalError ==
    \A u \in ForeignHashUsers, p \in Passwords :
        /\ verify_password_result(p, users[u].hashed_password) = "InternalError"
        /\ LogInArrival(users[u].email, p, TRUE).pc = "done"
        /\ LogInArrival(users[u].email, p, TRUE).resp = "InternalError"

\* The part that holds: a stored hash that is no PHC string yields
\* InternalError, the log-in is answered InternalError, and no refresh-token
\* row ever belongs to that user.
C27_MalformedHashIsInternalError ==
    \A u \in ForeignHashUsers, p \in Passwords :
        users[u].hashed_password = MalformedHash
        => /\ verify_password_result(p, users[u].hashed_password) = "InternalError"
           /\ LogInArrival(users[u].email, p, TRUE).pc = "done"
           /\ LogInArrival(users[u].email, p, TRUE).resp = "InternalError"
           /\ RowsOfUser(u) = {}

\* The cookies the extractor refuses as not being an access credential: a
\* forged token, a refresh token, and a signed token whose sub is no UUID.
NotAccessTokens ==
    {a \in WsCookies : a.token_type \in {"forged", "refresh"} \/ a.sub = NotAUuid}

\* The answer of each endpoint behind the extractor to the access cookie a,
\* whatever else the request carries and whether the store is up or not.
GuardedAnswers(a) ==
    {start_work_session(a, j, up, now) : j \in Jobs, up \in BOOLEAN}
    \cup {transition_work_session(k, a, i, up, now) :
             k \in TransitionKinds, i \in WsIds, up \in BOOLEAN}
    \cup {SetPasswordArrival(a, c, p, up, now) :
             c \in WsCookies, p \in NewPasswords, up \in BOOLEAN}

\* C28: a request to an endpoint behind the extractor that carries no
\* access_token cookie is answered Unauthorized, and one whose cookie is forged,
\* is a refresh token or has a sub that is no UUID is answered TokenInvalid;
\* either way the request ends in the extractor: the handler has read no user,
\* session or job for it, and it occupies no request slot, so no state changes.
C28_RejectedBeforeHandler ==
    \A a \in {NoCookie} \cup NotAccessTokens :
        \A rec \in GuardedAnswers(a) :
            /\ rec.pc = "done"
            /\ rec.resp = (IF a = NoCookie THEN "Unauthorized" ELSE "TokenInvalid")
            /\ rec.user_id = NoUser /\ rec.message = ""
            /\ \A r \in ReqIds : Arrive(r, rec) = req

\* u1 has a running session, which a pause request with u1's access token
\* would go on to write; the same request without a cookie is answered
\* Unauthorized and with a non-UUID sub TokenInvalid.
C28_Witness ==
    /\ Len(work_sessions) >= 1
    /\ work_sessions[1].user_id = "u1" /\ work_sessions[1].is_running
    /\ \E a \in WsTokens :
          transition_work_session("pause_work_session", a, 1, TRUE, now).pc = "ws_update"
    /\ transition_work_session("pause_work_session", NoCookie, 1, TRUE, now).resp
          = "Unauthorized"
    /\ transition_work_session("pause_work_session", NonUuidSub, 1, TRUE, now).resp
          = "TokenInvalid"

\* C29: in every reachable state each user has at most one work session
\* without an end_time, also when two start requests of the same user overlap,
\* and a start request made while the user has such a session is answered with
\* a validation error at once and creates nothing.
C29_AtMostOneActiveSession ==
    /\ \A u \in Users : Cardinality(find_active_for_user(u)) <= 1
    /\ \A a \in WsTokens, j \in Jobs :
          (/\ AuthenticatedUser(a, now) = "ok"
           /\ job_exists_for_user(a.sub, j)
           /\ find_active_for_user(a.sub) # {})
          => /\ start_work_session(a, j, TRUE, now).pc = "done"
             /\ start_work_session(a, j, TRUE, now).resp = "ValidationError"

\* The part that holds: a start request that finds an active session of its
\* user is answered with a validation error and occupies no request slot.
C29_StartWhileActiveIsRefused ==
    \A a \in WsTokens, j \in Jobs :
        (/\ AuthenticatedUser(a, now) = "ok"
         /\ job_exists_for_user(a.sub, j)
         /\ find_active_for_user(a.sub) # {})
        => /\ start_work_session(a, j, TRUE, now).pc = "done"
           /\ start_work_session(a, j, TRUE, now).resp = "ValidationError"
           /\ \A r \in ReqIds : Arrive(r, start_work_session(a, j, TRUE, now)) = req

\* What each transition requires of the session row it reads.
Allowed(kind, row) ==
    IF kind = "pause_work_session" THEN row.end_time = {} /\ row.is_running
    ELSE IF kind = "resume_work_session"
    THEN row.end_time = {} /\ ~row.is_running /\ row.paused_at # {}
    ELSE row.end_time = {}

\* C30: a pause, resume or complete request of the session's owner goes on to
\* its write exactly when the row it reads is running and uncompleted (pause),
\* paused and uncompleted (resume), or uncompleted (complete); in every other
\* case it is answered with a validation error at once and occupies no request
\* slot, so the session is unchanged; in particular every such request that
\* reads a completed session is refused. Only the write step of a request that
\* passed these checks changes a stored session, and it stores the input the
\* request built from the row it read.
C30_TransitionsAreGuarded ==
    [][/\ \A k \in TransitionKinds, a \in WsTokens, i \in SessionIds :
             (AuthenticatedUser(a, now) = "ok" /\ find_by_id_for_user(a.sub, i) # {})
             => LET rec == transition_work_session(k, a, i, TRUE, now)
                IN  /\ (rec.pc = "ws_update") = Allowed(k, work_sessions[i])
                    /\ ~Allowed(k, work_sessions[i])
                       => /\ rec.pc = "done" /\ rec.resp = "ValidationError"
                          /\ \A r \in ReqIds : Arrive(r, rec) = req
                    /\ work_sessions[i].end_time # {} => rec.resp = "ValidationError"
       /\ \A i \in SessionIds :
             work_sessions'[i] # work_sessions[i]
             => \E r \in ReqIds :
                   /\ req[r].pc = "ws_update" /\ req[r].session_id = i
                   /\ req[r].kind \in TransitionKinds
                   /\ req'[r].pc = "done" /\ req'[r].resp = "OK"
                   /\ work_sessions'[i] = WorkSessionRow(req[r].user_id, req[r].input)]_vars

\* A session has been started and completed; the owner's pause, resume and
\* complete requests on it are each answered with a validation error.
C30_Witness ==
    \E i \in SessionIds, a \in WsTokens :
        /\ work_sessions[i].end_time # {}
        /\ AuthenticatedUser(a, now) = "ok" /\ a.sub = work_sessions[i].user_id
        /\ \A k \in TransitionKinds :
              transition_work_session(k, a, i, TRUE, now).resp = "ValidationError"
        /\ \E r \in ReqIds :
              /\ req[r].kind = "complete_work_session" /\ req[r].resp = "OK"
              /\ req[r].session_id = i

\* ------------------------------------------------------- work sessions
\* C31: a work session is seen and changed by its owner only. A get-active
\* answer names a session of the caller; a pause, resume or complete request
\* of another user on a session is answered NotFound at once and occupies no
\* request slot; and every change of a stored session is the write of a
\* request of the session's owner, which leaves the owner as it was.
C31_OwnerOnly ==
    [][/\ \A r \in ReqIds :
             (req'[r].kind = "get_active_work_session" /\ req'[r].resp = "OK")
             => /\ req'[r].session_id \in SessionIds
                /\ work_sessions[req'[r].session_id].user_id = req'[r].user_id
       /\ \A k \in TransitionKinds, a \in WsTokens, i \in SessionIds :
             (AuthenticatedUser(a, now) = "ok" /\ a.sub # work_sessions[i].user_id)
             => LET rec == transition_work_session(k, a, i, TRUE, now)
                IN  /\ rec.pc = "done" /\ rec.resp = "NotFound"
                    /\ \A r \in ReqIds : Arrive(r, rec) = req
       /\ \A i \in SessionIds :
             work_sessions'[i] # work_sessions[i]
             => /\ work_sessions'[i].user_id = work_sessions[i].user_id
                /\ \E r \in ReqIds :
                      /\ req[r].pc = "ws_update" /\ req[r].session_id = i
                      /\ req[r].user_id = work_sessions[i].user_id]_vars

\* u1 has a running session; u2's get-active request has been answered
\* NotFound, u1's with that session, and u2's pause of it would be answered
\* NotFound.
C31_Witness ==
    \E i \in SessionIds, a \in WsTokens, r, q \in ReqIds :
        /\ work_sessions[i].user_id = "u1" /\ work_sessions[i].is_running
        /\ AuthenticatedUser(a, now) = "ok" /\ a.sub = "u2"
        /\ transition_work_session("pause_work_session", a, i, TRUE, now).resp = "NotFound"
        /\ req[r].kind = "get_active_work_session" /\ req[r].user_id = "u2"
        /\ req[r].resp = "NotFound"
        /\ req[q].kind = "get_active_work_session" /\ req[q].user_id = "u1"
        /\ req[q].resp = "OK" /\ req[q].session_id = i

\* ---------------------------------------------------------- code lookup
\* Row i of auth_codes is an unused, unexpired code of the user and the type.
IsValidFor(i, user_id, code_type) ==
    /\ auth_codes[i].user_id = user_id
    /\ auth_codes[i].code_type = code_type
    /\ auth_codes[i].used = FALSE
    /\ auth_codes[i].expires_at > now

\* C32: the auth-code lookup for a user and a code type returns nothing
\* exactly when the user has no unused, unexpired row of that type, and
\* otherwise the row among these that was created last (the table is in
\* insertion order); and the row a confirm-email or verify-forgot-password
\* request goes on to mark is, at the instant of its lookup, such a row of the
\* request's user and of its handler's type whose hash the presented code
\* verifies against.
C32_LookupReturnsNewestValid ==
    [][/\ \A u \in Users, ty \in {"email_confirmation", "password_reset"} :
             LET id == find_valid_auth_code(u, ty, now)
             IN  /\ id = 0 <=> ~\E i \in CodeRows : IsValidFor(i, u, ty)
                 /\ id # 0 => /\ id \in CodeRows
                              /\ IsValidFor(id, u, ty)
                              /\ \A j \in CodeRows : IsValidFor(j, u, ty) => j <= id
       /\ \A r \in ReqIds :
             (req[r].pc \in {"ce_find_code", "vf_find_code"}
              /\ req'[r].pc \in {"ce_mark", "vf_mark"})
             => /\ req'[r].code_id \in CodeRows
                /\ IsValidFor(req'[r].code_id, req[r].user_id, CodeTypeOf(r))
                /\ \A j \in CodeRows :
                      IsValidFor(j, req[r].user_id, CodeTypeOf(r)) => j <= req'[r].code_id
                /\ verify_code(req[r].auth_code, auth_codes[req'[r].code_id].code_hash)]_vars

\* A user has two unused, unexpired reset codes and also a used, expired code
\* of the other type, another user has a code too, and a
\* verify-forgot-password of the first user has looked up the newer reset code.
C32_Witness ==
    \E r \in ReqIds, i, j, k \in CodeRows :
        /\ req[r].kind = "verify_forgot_password" /\ req[r].pc = "vf_mark"
        /\ i < j /\ req[r].code_id = j
        /\ IsValidFor(i, req[r].user_id, "password_reset")
        /\ IsValidFor(j, req[r].user_id, "password_reset")
        /\ auth_codes[k].user_id = req[r].user_id
        /\ auth_codes[k].code_type = "email_confirmation"
        /\ auth_codes[k].used /\ auth_codes[k].expires_at <= now
        /\ \E m \in CodeRows : auth_codes[m].user_id # req[r].user_id

\* ------------------------------------------------------------- log-out
\* C33: the step in which a log-out's revoke returns changes at most the one
\* record whose token_hash is that of the presented refresh token, and only by
\* setting its revoked flag: every other record, of the same user or of
\* another, and the users table stay as they were, and no record is added or
\* removed.
C33_LogOutRevokesOnlyItsSession ==
    [][\A r \in ReqIds :
          (req[r].kind = "log_out" /\ req[r].pc = "lo_revoke" /\ req'[r].pc = "done")
          => /\ Len(refresh_tokens') = Len(refresh_tokens)
             /\ Cardinality({i \in Rows :
                                refresh_tokens[i].token_hash = req[r].token_hash}) <= 1
             /\ \A i \in Rows :
                   \/ refresh_tokens'[i] = refresh_tokens[i]
                   \/ /\ refresh_tokens[i].token_hash = req[r].token_hash
                      /\ refresh_tokens'[i] = [refresh_tokens[i] EXCEPT !.revoked = TRUE]
             /\ users' = users]_vars

\* A user with two sessions has logged out of one: that record is revoked and
\* the other is still active.
C33_Witness ==
    \E r \in ReqIds, i, j \in Rows :
        /\ req[r].kind = "log_out" /\ req[r].pc = "done" /\ req[r].revoke_result = "ok"
        /\ refresh_tokens[i].token_hash = req[r].token_hash
        /\ refresh_tokens[i].revoked
        /\ i # j
        /\ refresh_tokens[j].user_id = refresh_tokens[i].user_id
        /\ ~refresh_tokens[j].revoked /\ refresh_tokens[j].expires_at > now

\* ------------------------------------------------- log-in and set-password
\* C34: once a set-password of a user has committed, no session of that user
\* obtained with the previous password is active: the commit leaves every
\* record of the user revoked, and a log-in stores its session record only
\* while the stored hash still verifies the password it checked.
C34_NoSessionFromPreviousPassword ==
    [][/\ \A r \in ReqIds :
             (req[r].kind = "set_password" /\ req[r].pc = "sp_commit"
              /\ req'[r].pc = "sp_insert")
             => \A i \in 1..Len(refresh_tokens') :
                   refresh_tokens'[i].user_id = req[r].user_id
                   => refresh_tokens'[i].revoked
       /\ \A r \in ReqIds :
             (req[r].kind = "log_in" /\ req[r].pc = "li_insert" /\ req'[r].resp = "OK")
             => verify_password(req[r].password,
                                users[req[r].user_id].hashed_password)]_vars

\* The part that holds: every record of the user that existed when the
\* set-password ran its revoke-all is revoked once the set-password commits.
C34_CommitRevokesWhatRevokeAllSaw ==
    [][\A r \in ReqIds :
          (req[r].kind = "set_password" /\ req[r].pc = "sp_commit"
           /\ req'[r].pc = "sp_insert")
          => \A i \in req[r].tx_rt : refresh_tokens'[i].revoked]_vars

\* ------------------------------------------- sessions and confirmation
\* C35 as stated: every user with an active refresh session has a confirmed
\* email.
C35_ActiveSessionImpliesConfirmed ==
    \A i \in Rows : Active(i) => users[refresh_tokens[i].user_id].email_confirmed

\* C35, amended: every refresh session is stored by a log-in or a
\* verify-forgot-password of the session's user; one stored by a log-in
\* belongs to a user whose email is confirmed, and one stored by a
\* verify-forgot-password to a user whose reset code the request has
\* verified and marked, whether or not the email is confirmed.
C35_OnlyLogInRequiresConfirmation ==
    [][\A i \in 1..Len(refresh_tokens') :
          i > Len(refresh_tokens)
          => \E r \in ReqIds :
                /\ req[r].pc \in {"li_insert", "vf_insert"}
                /\ req'[r].pc = "done" /\ req'[r].resp = "OK"
                /\ refresh_tokens'[i].user_id = req[r].user_id
                /\ req[r].kind = "log_in" => users[req[r].user_id].email_confirmed
                /\ req[r].kind = "verify_forgot_password"
                   => /\ req[r].code_id \in CodeRows
                      /\ auth_codes[req[r].code_id].user_id = req[r].user_id
                      /\ auth_codes[req[r].code_id].code_type = "password_reset"
                      /\ auth_codes[req[r].code_id].used]_vars

\* The unconfirmed user holds an active session from a
\* verify-forgot-password and would still be refused by log-in with the right
\* password; the confirmed user holds one from a log-in.
C35_Witness ==
    \E i, j \in Rows, r \in ReqIds :
        /\ Active(i) /\ ~users[refresh_tokens[i].user_id].email_confirmed
        /\ LogInArrival(users[refresh_tokens[i].user_id].email, "p1", TRUE).resp
              = "EmailNotConfirmed"
        /\ Active(j) /\ users[refresh_tokens[j].user_id].email_confirmed
        /\ req[r].kind = "log_in" /\ req[r].resp = "OK"
        /\ req[r].user_id = refresh_tokens[j].user_id

\* ------------------------------------------------------ failed sign-ups
\* Request r is a sign-up answered with an error in this step.
SignUpFails(r) ==
    /\ req[r].kind = "sign_up" /\ InFlight(r)
    /\ req'[r].pc = "done" /\ req'[r].resp # "Created"

\* C36: a sign-up that is answered with an error leaves behind no users row
\* and no auth_codes row that it inserted, so its email is still free for a
\* later sign-up.
C36_FailedSignUpLeavesNothing ==
    [][\A r \in ReqIds :
          (SignUpFails(r) /\ req[r].user_id # NoUser)
          => /\ ~users'[req[r].user_id].exists
             /\ \A i \in 1..Len(auth_codes') : auth_codes'[i].user_id # req[r].user_id
             /\ \A u \in Users : ~(users'[u].exists /\ users'[u].email = req[r].email)]_vars

\* The part that holds: a sign-up that fails before or in its users insert
\* (hashing failure, store failure, an email taken meanwhile) has written
\* nothing.
C36_FailureBeforeInsertLeavesNothing ==
    [][\A r \in ReqIds :
          (SignUpFails(r) /\ req[r].pc = "su_create_user")
          => /\ users' = users /\ auth_codes' = auth_codes
             /\ req[r].user_id = NoUser]_vars

\* ------------------------------------------- completion under concurrency
\* C37: a work session that has an end_time keeps it and stays not running,
\* whatever pause, resume and complete requests on it interleave.
C37_CompletionIsTerminal ==
    [][\A i \in SessionIds :
          work_sessions[i].end_time # {}
          => /\ work_sessions'[i].end_time = work_sessions[i].end_time
             /\ ~work_sessions'[i].is_running]_vars

\* The part that holds: a request that reads the session after it was
\* completed is refused, so a completed session changes only through the
\* write of a request that read it before its completion was stored.
C37_OnlyStaleWritesReopen ==
    [][\A i \in SessionIds :
          (work_sessions[i].end_time # {} /\ work_sessions'[i] # work_sessions[i])
          => \E r \in ReqIds :
                /\ req[r].pc = "ws_update" /\ req[r].session_id = i
                /\ req'[r].pc = "done"
                /\ \/ req[r].kind = "complete_work_session"
                   \/ work_sessions'[i].end_time = {}]_vars

\* --------------------------------------------------- work-session rows
\* C38: every stored work session is running with paused_at and end_time
\* unset, or completed with is_running false and paused_at unset, or neither
\* running nor completed with paused_at set.
C38_RowInvariants ==
    \A i \in SessionIds :
        LET s == work_sessions[i]
        IN  /\ s.is_running => (s.paused_at = {} /\ s.end_time = {})
            /\ s.end_time # {} => (~s.is_running /\ s.paused_at = {})
            /\ (~s.is_running /\ s.end_time = {}) => s.paused_at # {}

\* A session has been started, paused and then completed, the pause and the
\* complete each answered OK.
C38_Witness ==
    \E i \in SessionIds, p, c \in ReqIds :
        /\ req[p].kind = "pause_work_session" /\ req[p].resp = "OK"
        /\ req[p].session_id = i
        /\ req[c].kind = "complete_work_session" /\ req[c].resp = "OK"
        /\ req[c].session_id = i
        /\ work_sessions[i].end_time # {} /\ work_sessions[i].paused_at = {}
        /\ ~work_sessions[i].is_running

\* --------------------------------------------------- paused duration
\* C39: accumulated_paused_duration starts at 0, is never negative and never
\* decreases; a pause's write and the write of a complete on a running session
\* leave it as it is.
C39_PausedDurationNeverDecreases ==
    [][/\ \A i \in 1..Len(work_sessions') :
             /\ work_sessions'[i].accumulated_paused_duration >= 0
             /\ i > Len(work_sessions)
                => work_sessions'[i].accumulated_paused_duration = 0
       /\ \A i \in SessionIds :
             work_sessions'[i].accumulated_paused_duration
                >= work_sessions[i].accumulated_paused_duration
       /\ \A r \in ReqIds :
             (/\ req[r].pc = "ws_update" /\ req'[r].resp = "OK"
              /\ \/ req[r].kind = "pause_work_session"
                 \/ /\ req[r].kind = "complete_work_session"
                    /\ work_sessions[req[r].session_id].is_running)
             => work_sessions'[req[r].session_id].accumulated_paused_duration
                   = work_sessions[req[r].session_id].accumulated_paused_duration]_vars

\* The part that holds: a new session is stored with 0, no stored value is
\* negative, and the value a request goes on to write is computed from the
\* row it reads: the value read for a pause and for a complete of a session
\* that is not paused, and the value read plus the seconds since paused_at,
\* at least 0, for a resume and for a complete of a paused session.
C39_WriteInputArithmetic ==
    /\ \A i \in SessionIds : work_sessions[i].accumulated_paused_duration >= 0
    /\ \A a \in WsTokens, j \in Jobs :
          start_work_session(a, j, TRUE, now).pc = "ws_create"
          => start_work_session(a, j, TRUE, now).input.accumulated_paused_duration = 0
    /\ \A k \in TransitionKinds, a \in WsTokens, i \in SessionIds :
          LET rec == transition_work_session(k, a, i, TRUE, now)
              row == work_sessions[i]
              since == IF row.paused_at = {} THEN 0
                       ELSE LET p == CHOOSE x \in row.paused_at : TRUE
                            IN  IF now > p THEN now - p ELSE 0
          IN  rec.pc = "ws_update"
              => rec.input.accumulated_paused_duration
                    = IF k = "pause_work_session"
                      THEN row.accumulated_paused_duration
                      ELSE row.accumulated_paused_duration + since

====
